---- MODULE Spec2Model ----
(***************************************************************************)
(* Bounty lifecycle of solana-bounty-sdk / bounty-bot-server.              *)
(*                                                                         *)
(* One webhook delivery is one run of the express route, which calls       *)
(* BountyManager.handleWebhook.  Every handler is an async function: it    *)
(* runs until its next await, the awaited external call (issue tracker,    *)
(* ledger RPC, notification provider) completes with some outcome, and the *)
(* handler resumes.  An action of this model is one such resumption: the   *)
(* outcome of the awaited call together with all the code that runs up to  *)
(* the next await.  pc names the call a delivery is waiting for.           *)
(*                                                                         *)
(* The issue tracker's answers about pull requests, issues and timelines   *)
(* are inputs (drawn when the call completes); the comments the program    *)
(* posts and the escrow accounts on the ledger are state.  A transaction   *)
(* is executed by the ledger at the moment sendTransaction returns.        *)
(***************************************************************************)
EXTENDS Integers, Sequences, FiniteSets, TLC

\* ------------------------------------------------------------------ bounds
MaxDeliveries == 3

\* ----------------------------------------------------------------- domains
Repos   == {"org/a", "org/b"}
Numbers == {1, 2}
Users   == {"alice", "bob"}
Slots   == {1, 2}
\* the (repository, issueNumber) pairs that labels are attached to
Pairs   == {<<"org/a", 1>>, <<"org/a", 2>>, <<"org/b", 1>>}

Providers == <<"Discord", "Slack">>

\* ------------------------------------------------------- bounty configuration
ConfiguredLabels == {"bounty-1-sol", "bounty-2-sol"}
Labels == ConfiguredLabels \cup {"bug"}

\* bountyConfig[label]; an absent key reads as undefined, modelled as 0
bountyConfig(label) ==
  CASE label = "bounty-1-sol" -> 1000000000
    [] label = "bounty-2-sol" -> 2000000000
    [] OTHER -> 0

\* mutation of getBountyAmount: every configured label pays the same
getBountyAmountFlat(label) == IF label \in ConfiguredLabels THEN 1000000000 ELSE 0

\* this.bountyConfig[label] || null ; null is modelled as 0
getBountyAmount(label) == bountyConfig(label)


\* ------------------------------------------------------- webhook signature
\* A string is modelled by its length and (for "sha256=<hex>") the digest it
\* carries.  The HMAC is an injective function of (body, secret) on the
\* modelled domain.
Hmac(body, secret) == body * 8 + secret

EmptyStr == [len |-> 0, mac |-> 0]

\* `sha256=${hmac.digest("hex")}` : 7 + 64 characters
expectedSignature(body, secret) == [len |-> 7 + 64, mac |-> Hmac(body, secret)]

\* mutation of verifyGitHubSignature: only the lengths are compared
verifyLengthOnly(body, signature, secret) ==
  IF signature = EmptyStr \/ secret = 0 THEN "false"
  ELSE IF signature.len # expectedSignature(body, secret).len THEN "throw"
  ELSE "true"

\* crypto.timingSafeEqual throws a RangeError when the two buffers differ
\* in length; otherwise it compares the bytes.
verifyGitHubSignature(body, signature, secret) ==
  IF signature = EmptyStr \/ secret = 0 THEN "false"
  ELSE IF signature.len # expectedSignature(body, secret).len THEN "throw"
  ELSE IF signature = expectedSignature(body, secret) THEN "true"
  ELSE "false"

\* mutation of verifyWebhook: every signature is accepted
verifyWebhookTrusting(rawBody, signature, secret) == "true"

\* GitHubProvider.verifyWebhook delegates to verifyGitHubSignature
verifyWebhook(rawBody, signature, secret) ==
  verifyGitHubSignature(rawBody, signature, secret)

\* the deployment: one raw body, the configured GITHUB_WEBHOOK_SECRET
RawBody == 1
WebhookSecret == 1

SigValid    == expectedSignature(RawBody, WebhookSecret)
SigForged   == expectedSignature(RawBody, WebhookSecret + 1)
SigShort    == [len |-> 5, mac |-> 0]
Signatures  == {SigValid, SigForged, SigShort, EmptyStr}

\* the arguments verifyGitHubSignature is applied to on its own: raw bodies
\* (0 is the empty body), secrets (0 is the empty string) and header values
MaxBody == 3
MaxSecret == 3
Bodies == 0..MaxBody
Secrets == 0..MaxSecret
SigLong == [len |-> 7 + 64 + 1, mac |-> 0]
SignatureStrings ==
  {EmptyStr, SigShort, SigLong}
    \cup {expectedSignature(b, k) : b \in Bodies, k \in Secrets}

\* ------------------------------------------------------- text of a PR body
\* A text is a sequence of whitespace-separated words.  A word "#n" is an
\* issue reference; the first pattern of extractIssueNumbers has no word
\* boundary in front of the keyword, so any word ENDING in a closing keyword
\* (case-insensitively) followed by a reference matches it.
IsRef(w) == w \in {"#1", "#2"}
RefNum(w) == IF w = "#1" THEN 1 ELSE 2
EndsWithClosingKeyword(w) == w \in {"Fixes", "closes", "prefix"}

PRBodies == { <<>>, <<"Fixes", "#1">>, <<"see", "#2">>,
              <<"see", "#1", "closes", "#2">> }

\* insertion into a JavaScript Set kept in insertion order
RECURSIVE Dedupe(_)
Dedupe(seq) ==
  IF seq = <<>> THEN <<>>
  ELSE LET rest == Dedupe(SubSeq(seq, 1, Len(seq) - 1))
           x == seq[Len(seq)]
       IN IF \E i \in 1..Len(rest) : rest[i] = x THEN rest ELSE Append(rest, x)

RECURSIVE KeywordMatches(_, _)
KeywordMatches(words, i) ==
  IF i >= Len(words) THEN <<>>
  ELSE IF EndsWithClosingKeyword(words[i]) /\ IsRef(words[i + 1])
       THEN <<RefNum(words[i + 1])>> \o KeywordMatches(words, i + 1)
       ELSE KeywordMatches(words, i + 1)

RECURSIVE HashMatches(_, _)
HashMatches(words, i) ==
  IF i > Len(words) THEN <<>>
  ELSE IF IsRef(words[i])
       THEN <<RefNum(words[i])>> \o HashMatches(words, i + 1)
       ELSE HashMatches(words, i + 1)

extractKeywordOnly(words) == Dedupe(KeywordMatches(words, 1))

\* both patterns, in order: keyword matches first, then every "#n"
extractIssueNumbers(words) ==
  Dedupe(KeywordMatches(words, 1) \o HashMatches(words, 1))


\* ------------------------------------------------------------ comment texts
\* The words of each comment the program posts that a pattern of the program
\* (or a claim) looks for.
MsgWords(kind) ==
  CASE kind = "NotMerged" ->
         <<"**", "Cannot", "claim", "bounty", "**", "must", "be", "merged">>
    [] kind = "NotAuthor" -> <<"**", "Unauthorized", "claim", "**", "author">>
    [] kind = "NoBounty" -> <<"**", "No", "bounty", "found", "**">>
    [] kind = "NotAssigned" -> <<"**", "Unauthorized", "claim", "**", "assigned">>
    [] kind = "AlreadyClaimed" -> <<"**", "Bounty", "already", "claimed", "**">>
    [] kind = "EscrowCreated" -> <<"**", "Bounty", "escrow", "created", "**">>
    [] kind = "Released" -> <<"**", "Bounty", "released", "to", "@user", "**">>
    [] kind = "Claimed" -> <<"**", "Bounty", "claimed", "**">>
    [] kind = "ReleaseFailed" -> <<"Failed", "to", "release", "bounty:">>
    [] kind = "CreateFailed" -> <<"Failed", "to", "create", "bounty", "escrow:">>
    [] OTHER -> <<>>

\* /\*\*Bounty (released|claimed)\*\*/i
claimPattern(words) ==
  \E i \in 1..Len(words) :
    /\ i + 3 <= Len(words)
    /\ words[i] = "**"
    /\ words[i + 1] \in {"Bounty", "bounty", "BOUNTY"}
    /\ words[i + 2] \in {"released", "claimed"}
    /\ words[i + 3] = "**"

\* ------------------------------------------------------------ comment bodies
\* A comment body after trim(), as its whitespace-separated tokens.
CommentBodies == { <<>>, <<"/assign">>, <<"/assign", "me">>, <<"/claim">>,
                   <<"/claim", "W1", "W2">>, <<"/claim", "bad">>,
                   <<"/claimed", "bad">> }

\* commentBody === "/assign"
IsAssignCommand(body) == body = <<"/assign">>
\* commentBody.startsWith("/claim")
StartsWithClaim(body) == body # <<>> /\ body[1] \in {"/claim", "/claimed"}
\* commentBody.split(/\s+/)[1] ; undefined is modelled as ""
walletToken(body) == IF Len(body) >= 2 THEN body[2] ELSE ""
\* new PublicKey(address) succeeds
IsValidAddress(tok) == tok \in {"W1", "W2"}

\* ------------------------------------------------------------------- errors
\* error.message.includes(needle) of the route's catch block
Includes(msg, needle) ==
  \/ msg = needle
  \/ needle = "Missing required fields"
       /\ msg \in {"Missing required fields in labeled event",
                   "Missing required fields in comment event"}

\* --------------------------------------------------------------- deliveries
NoPR     == [merged |-> FALSE, author |-> "", body |-> <<>>]
NoLinked == [number |-> 0, bountyAmount |-> 0, label |-> ""]

\* the labels are attached by one user, who is or is not a maintainer
Senders == {"bob"}

\* labeled events with every required field
FullLabeled ==
  { in \in [action : {"labeled"}, hasComment : {FALSE}, number : Numbers,
            isPR : {FALSE}, repo : Repos, label : Labels,
            sender : Senders, body : {<<>>}, commenter : {""}] :
      <<in.repo, in.number>> \in Pairs }

LabeledBase == CHOOSE in \in FullLabeled : in.label = "bounty-1-sol"

\* and one labeled event for each required field it may lack
LabeledPayloads ==
  FullLabeled \cup
  { [LabeledBase EXCEPT !.number = 0], [LabeledBase EXCEPT !.repo = ""],
    [LabeledBase EXCEPT !.label = ""], [LabeledBase EXCEPT !.sender = ""] }

\* the comments are written by one user, on the issue or pull request #2 of
\* one repository; the author of the pull request and the issues it links
\* are any
Commenters == {"alice"}
CommentedNumbers == {2}
CommentedRepos == {"org/a"}

FullComments ==
  [action : {"created"}, hasComment : {TRUE}, number : CommentedNumbers,
   isPR : BOOLEAN, repo : CommentedRepos, label : {""},
   sender : {""}, body : CommentBodies \ {<<>>}, commenter : Commenters]

CommentBase == CHOOSE in \in FullComments : in.isPR /\ in.body = <<"/claim", "W1", "W2">>

CommentPayloads ==
  FullComments \cup
  { [CommentBase EXCEPT !.number = 0], [CommentBase EXCEPT !.repo = ""],
    [CommentBase EXCEPT !.body = <<>>], [CommentBase EXCEPT !.commenter = ""] }

OtherPayloads ==
  [action : {"created", "opened"}, hasComment : {FALSE}, number : {1},
   isPR : {FALSE}, repo : {"org/a"}, label : {""},
   sender : {"alice"}, body : {<<>>}, commenter : {""}]

Payloads == LabeledPayloads \cup CommentPayloads \cup OtherPayloads

\* SecurityConfig: every flag is optional.  The configurations are: nothing
\* set, every flag set to its default, one flag set against its default, and
\* every flag set against its default.
Unset == [skipAssignmentCheck |-> "unset", requireMergedPR |-> "unset",
          requireMaintainerForBountyCreation |-> "unset"]

SecurityConfigs ==
  { Unset,
    [skipAssignmentCheck |-> "false", requireMergedPR |-> "true",
     requireMaintainerForBountyCreation |-> "true"],
    [Unset EXCEPT !.skipAssignmentCheck = "true"],
    [Unset EXCEPT !.requireMergedPR = "false"],
    [Unset EXCEPT !.requireMaintainerForBountyCreation = "false"],
    [skipAssignmentCheck |-> "true", requireMergedPR |-> "false",
     requireMaintainerForBountyCreation |-> "false"] }

VARIABLES
  call,         \* one call of verifyGitHubSignature: its arguments and result
  cfg,          \* BountyManager.securityConfig
  botAccount,   \* the configured token posts as an account of type "Bot"
  ledger,       \* the escrow account at each derived address
  fundings,     \* CreateEscrow transactions the ledger has executed, per address
  payouts,      \* ReleaseEscrow transactions the ledger has executed, per address
  claimed,      \* a claim of the issue's bounty has completed: released and both comments posted
  claimMarker,  \* some Bot comment on the issue matches claimPattern
  handled,      \* deliveries received so far
  slot          \* the deliveries being handled

vars == <<call, cfg, botAccount, ledger, fundings, payouts, claimed, claimMarker, handled, slot>>

Ev(op, repo, num, who, msg, err, amt, ok) ==
  [op |-> op, repo |-> repo, num |-> num, who |-> who, msg |-> msg,
   err |-> err, amt |-> amt, ok |-> ok]

\* no call of verifyGitHubSignature outside a delivery
NoCall == [stage |-> "none", body |-> 0, signed |-> 0, signature |-> EmptyStr,
           secret |-> 0, result |-> "none"]

IdleSlot ==
  [pc |-> "idle", http |-> 0, thrown |-> "", sig |-> EmptyStr,
   in |-> [action |-> "", hasComment |-> FALSE, number |-> 0, isPR |-> FALSE,
           repo |-> "", label |-> "", sender |-> "", body |-> <<>>,
           commenter |-> ""],
   log |-> <<>>, pr |-> NoPR, cands |-> <<>>, crossReferences |-> <<>>,
   searchedIssues |-> <<>>, ci |-> 0, fetched |-> <<>>,
   found |-> NoLinked, linked |-> NoLinked, errors |-> <<>>, valid |-> "none", wallet |-> "",
   amount |-> 0, evt |-> "", ni |-> 0,
   pend |-> [num |-> 0, kind |-> "", err |-> ""]]

Init ==
  /\ call = NoCall
  /\ cfg \in SecurityConfigs
  /\ botAccount \in BOOLEAN
  /\ ledger = [p \in Pairs |-> [status |-> "absent", amount |-> 0]]
  /\ fundings = [p \in Pairs |-> 0]
  /\ payouts = [p \in Pairs |-> 0]
  /\ claimed = [p \in Pairs |-> FALSE]
  /\ claimMarker = [p \in Pairs |-> FALSE]
  /\ handled = 0
  /\ slot = [s \in Slots |-> IdleSlot]

Logged(r, e) == [r EXCEPT !.log = Append(@, e)]

\* mutation of Respond: the route never responds
RespondNever(r, status) == [r EXCEPT !.pc = "hung"]

\* the route's res.status(...) ; the delivery is over
Respond(r, status) == [r EXCEPT !.pc = "done", !.http = status]

\* the catch block of the webhook route
RouteCatch(r, msg) ==
  Respond([r EXCEPT !.thrown = msg],
          IF Includes(msg, "Invalid webhook signature") THEN 401
          ELSE IF Includes(msg, "Missing required fields") THEN 400
          ELSE 500)

\* a last comment is awaited: the handler returns once it is posted
FinalComment(r, num, kind, err) ==
  [r EXCEPT !.pc = "finalComment",
            !.pend = [num |-> num, kind |-> kind, err |-> err]]

\* notifyAll(data): the providers are notified one after the other
NotifyAll(r, evt) ==
  IF Len(Providers) = 0 THEN Respond(r, 200)
  ELSE [r EXCEPT !.pc = "notify", !.evt = evt, !.ni = 1]

\* ------------------------------------------------------------ handleLabeled
\* mutation of maintainerPolicyActive: an unset flag reads as "off"
maintainerPolicyActiveIfSet(c) == c.requireMaintainerForBountyCreation = "true"

\* this.securityConfig.requireMaintainerForBountyCreation !== false
maintainerPolicyActive(c) == c.requireMaintainerForBountyCreation # "false"

\* crypto.createHash("sha256").update(repoFullName).digest(): the digest is
\* written as the text it is the digest of, so distinct names give distinct
\* digests and a digest is never a name
getRepositoryHash(repoFullName) == "sha256(" \o repoFullName \o ")"

\* paymentProvider.createEscrow is entered: the existence lookup is awaited
EnterCreateEscrow(r, amount) ==
  [r EXCEPT !.pc = "createLookup", !.amount = amount,
            !.log = Append(@, Ev("createEscrow.call", r.in.repo, r.in.number,
                                  "", getRepositoryHash(r.in.repo), "", amount, TRUE))]

\* handleLabeled after the maintainer check
AfterMaintainerCheck(r) ==
  LET amount == getBountyAmount(r.in.label)
  IN IF amount = 0 THEN Respond(r, 200) ELSE EnterCreateEscrow(r, amount)

\* mutation of labeledFieldsMissing: the sender is not required
labeledFieldsMissingButSender(in) ==
  in.number = 0 \/ in.repo = "" \/ in.label = ""

\* the required fields of a labeled event
labeledFieldsMissing(in) ==
  in.number = 0 \/ in.repo = "" \/ in.label = "" \/ in.sender = ""

handleLabeled(r) ==
  IF labeledFieldsMissing(r.in)
  THEN RouteCatch(r, "Missing required fields in labeled event")
  ELSE IF maintainerPolicyActive(cfg)
       THEN [r EXCEPT !.pc = "checkIsMaintainer"]
       ELSE AfterMaintainerCheck(r)

\* the catch block of handleLabeled
CreateCatch(r, msg) == FinalComment(r, r.in.number, "CreateFailed", msg)

\* createEscrow throws: it returns nothing and handleLabeled catches
CreateEscrowThrows(r, msg) ==
  CreateCatch(Logged(r, Ev("createEscrow.return", r.in.repo, r.in.number,
                           "", "", msg, r.amount, FALSE)), msg)

\* mutation of AfterCreateLookup: the existence test is dropped
AfterCreateLookupBlind(r, accountInfo) == [r EXCEPT !.pc = "createSend"]

\* if (accountInfo) throw ... ; else the CreateEscrow transaction is built
\* and sendTransaction is awaited
AfterCreateLookup(r, accountInfo) ==
  IF accountInfo THEN CreateEscrowThrows(r, "Escrow already exists for this issue")
  ELSE [r EXCEPT !.pc = "createSend"]

\* -------------------------------------------------------------- handleClaim
\* The log of a delivery keeps the tracker queries of validateClaim, and the
\* delivery the locals of validateClaim and of findLinkedIssueWithBounty,
\* until the first call that completes after they have returned.
ValidationQueries ==
  {"getPullRequest", "findLinked.timeline", "findLinked.search",
   "findLinked.getIssue", "wasAssigned.getIssue", "wasAssigned.timeline",
   "isClaimed.listComments"}

IsKept(e) == e.op \notin ValidationQueries
\* findLinkedIssueWithBounty has returned: its locals, the queries it got
\* an answer to and the body of the pull request that only it reads are
\* gone; the queries that failed stay on record until validateClaim returns
FindLinkedQueries ==
  {"findLinked.timeline", "findLinked.search", "findLinked.getIssue"}
IsAfterFindLinked(e) == e.op \notin FindLinkedQueries \/ ~e.ok
Resolved(r) ==
  [r EXCEPT !.cands = <<>>, !.crossReferences = <<>>, !.searchedIssues = <<>>,
            !.ci = 0, !.fetched = <<>>, !.pr.body = <<>>,
            !.log = SelectSeq(@, IsAfterFindLinked)]
\* validateClaim has returned
Trimmed(r) ==
  [Resolved(r) EXCEPT !.found = NoLinked, !.log = SelectSeq(@, IsKept)]

\* mutation of EnterReleaseEscrow: the release is asked for the pull request
EnterReleaseEscrowForPR(r) ==
  [r EXCEPT !.pc = "releaseLookup",
            !.log = Append(@, Ev("releaseEscrow.call", r.in.repo, r.in.number,
                                  r.wallet, getRepositoryHash(r.in.repo), "", 0, TRUE))]

\* paymentProvider.releaseEscrow(linkedIssue.number, repoHash, wallet) is
\* entered: its existence lookup is awaited
EnterReleaseEscrow(r) ==
  [r EXCEPT !.pc = "releaseLookup",
            !.log = Append(@, Ev("releaseEscrow.call", r.in.repo, r.linked.number,
                                  r.wallet, getRepositoryHash(r.in.repo), "", 0, TRUE))]

\* mutation of ReleaseCatch: the release is tried again
ReleaseCatchRetries(r, msg) == EnterReleaseEscrow(r)

\* the catch block of handleClaim
ReleaseCatch(r, msg) == FinalComment(r, r.in.number, "ReleaseFailed", msg)

\* mutation of ReleaseEscrowThrows: the failure is swallowed
ReleaseEscrowThrowsSwallowed(r, msg) == [r EXCEPT !.pc = "releasedComment"]

ReleaseEscrowThrows(r, msg) ==
  ReleaseCatch(Logged(r, Ev("releaseEscrow.return", r.in.repo, r.linked.number,
                            r.wallet, "", msg, 0, FALSE)), msg)

\* mutation of AfterReleaseLookup: the existence test is dropped
AfterReleaseLookupBlind(r, accountInfo) == [r EXCEPT !.pc = "releaseSend"]

\* if (!accountInfo) throw ... ; else the ReleaseEscrow transaction is built
\* and sendTransaction is awaited
AfterReleaseLookup(r, accountInfo) ==
  IF ~accountInfo THEN ReleaseEscrowThrows(r, "Escrow does not exist for this issue")
  ELSE [r EXCEPT !.pc = "releaseSend"]

\* mutation of AfterValidation: the result of the validation is not read
AfterValidationUnchecked(r) == EnterReleaseEscrow(r)

\* mutation of AfterValidation: the errors of a refused claim are not posted
AfterValidationSilent(r) ==
  IF r.valid # "true" THEN Respond(r, 200) ELSE EnterReleaseEscrow(r)

\* if (!validation.isValid) { post each error; return } ; else release
AfterValidation(r) ==
  IF r.valid # "true"
  THEN IF r.errors = <<>> THEN Respond(r, 200)
       ELSE [r EXCEPT !.pc = "errorComment", !.ni = 1]
  ELSE EnterReleaseEscrow(r)

\* validateClaim returns { isValid, linkedIssue?, errors } to handleClaim
ValidationReturns(r, isValid, errors, linkedIssue) ==
  AfterValidation(
    [r EXCEPT !.valid = IF isValid THEN "true" ELSE "false",
              !.errors = errors, !.linked = linkedIssue,
              !.log = Append(@, Ev("validateClaim.return", r.in.repo, r.in.number,
                                    r.in.commenter, "", "", 0, isValid))])

\* return { isValid: false, errors } after errors.push(message)
Rejects(r, kind, err) ==
  ValidationReturns(r, FALSE, <<[kind |-> kind, err |-> err]>>, NoLinked)

\* return { isValid: true, linkedIssue, errors: [] }
Accepts(r) ==
  ValidationReturns(r, TRUE, <<>>, r.found)

\* mutation of claimLookupFails: a failed lookup rejects the claim
claimLookupFailsClosed(r) ==
  Rejects(Logged(r, Ev("isClaimed.listComments", r.in.repo, r.found.number, "", "", "", 0, FALSE)),
          "VerifyClaimFailed", "API error")

\* catch (error) { console.warn(...) } around isBountyAlreadyClaimed: the
\* failure is swallowed and validateClaim falls through to its last return
claimLookupFails(r) ==
  Accepts(Logged(r, Ev("isClaimed.listComments", r.in.repo, r.found.number, "", "", "", 0, FALSE)))

\* mutation of EnterStage5: check 5 is left out
EnterStage5Skipped(r) == Accepts(r)

\* Check 5 is entered: isBountyAlreadyClaimed is awaited
EnterStage5(r) == [r EXCEPT !.pc = "listComments"]

\* mutation of assignmentCheckActive: an unset flag reads as "skip"
assignmentCheckActiveIfSet(c) == c.skipAssignmentCheck = "false"

\* !this.config.skipAssignmentCheck
assignmentCheckActive(c) == c.skipAssignmentCheck # "true"

\* Check 4 is entered: wasUserEverAssigned awaits getIssue
EnterStage4(r) ==
  IF assignmentCheckActive(cfg) THEN [r EXCEPT !.pc = "assigneeIssue"]
  ELSE EnterStage5(r)

\* the first label of the issue with a configured amount, "" if none
RECURSIVE firstBountyLabel(_, _)
firstBountyLabel(labels, i) ==
  IF i > Len(labels) THEN ""
  ELSE IF bountyConfig(labels[i]) # 0 THEN labels[i]
  ELSE firstBountyLabel(labels, i + 1)

\* mutation of CheckCandidate: the return after "No bounty found" is missing
CheckCandidateFallsThrough(r, i) ==
  IF i > Len(r.cands) THEN EnterStage4([r EXCEPT !.ci = i])
  ELSE [r EXCEPT !.pc = "getIssue", !.ci = i]

\* findLinkedIssueWithBounty: the loop over uniqueIssues, at candidate i
CheckCandidate(r, i) ==
  IF i > Len(r.cands) THEN Rejects([r EXCEPT !.ci = i], "NoBounty", "")
  ELSE [r EXCEPT !.pc = "getIssue", !.ci = i]

\* Check 3 is entered: the body's references are extracted and the PR's
\* timeline is awaited
EnterStage3(r, body) ==
  [r EXCEPT !.pc = "prTimeline", !.cands = extractIssueNumbers(body)]

\* mutation of mergeCheckFails: an unset flag reads as "not required"
mergeCheckFailsIfSet(c, merged) == c.requireMergedPR = "true" /\ ~merged

\* mutation of authorCheckFails: the author is not compared
authorCheckSkipped(author, commenter) == FALSE

\* this.config.requireMergedPR !== false && !prData.merged
mergeCheckFails(c, merged) == c.requireMergedPR # "false" /\ ~merged

\* prData.user.login !== commenter
authorCheckFails(author, commenter) == author # commenter

\* validateClaim after getPullRequest has answered: checks 1 and 2
AfterPullRequest(r, merged, author, body) ==
  LET r1 == [r EXCEPT !.pr = [merged |-> merged, author |-> author, body |-> body]]
  IN IF mergeCheckFails(cfg, merged) THEN Rejects(r1, "NotMerged", "")
     ELSE IF authorCheckFails(author, r.in.commenter) THEN Rejects(r1, "NotAuthor", "")
     ELSE EnterStage3(r1, body)

\* mutation of handleClaim: the address token is not parsed
handleClaimUnparsed(r) ==
  [r EXCEPT !.pc = "getPullRequest", !.wallet = walletToken(r.in.body)]

handleClaim(r) ==
  LET walletStr == walletToken(r.in.body)
  IN IF walletStr = "" THEN FinalComment(r, r.in.number, "ClaimUsage", "")
     ELSE IF ~IsValidAddress(walletStr)
          THEN FinalComment(r, r.in.number, "InvalidWallet", "")
     ELSE [r EXCEPT !.pc = "getPullRequest", !.wallet = walletStr]

\* ------------------------------------------------------------ handleComment
commentFieldsMissing(in) ==
  in.body = <<>> \/ in.commenter = "" \/ in.number = 0 \/ in.repo = ""

handleAssign(r) == [r EXCEPT !.pc = "assignIssue"]

\* mutation of AssignCatch: the providers are notified all the same
AssignCatchNotifies(r, msg) == NotifyAll(r, "assignment")

\* the catch block of handleAssign
AssignCatch(r, msg) == FinalComment(r, r.in.number, "AssignFailed", msg)

handleComment(r) ==
  IF commentFieldsMissing(r.in)
  THEN RouteCatch(r, "Missing required fields in comment event")
  ELSE IF IsAssignCommand(r.in.body)
       THEN IF r.in.isPR THEN FinalComment(r, r.in.number, "AssignOnPR", "")
            ELSE handleAssign(r)
  ELSE IF StartsWithClaim(r.in.body)
       THEN IF ~r.in.isPR THEN FinalComment(r, r.in.number, "ClaimOnIssue", "")
            ELSE handleClaim(r)
  ELSE Respond(r, 200)

\* mutation of Dispatch: every 'created' event is taken for a comment
DispatchAnyCreated(r) ==
  IF r.in.action = "labeled" THEN handleLabeled(r)
  ELSE IF r.in.action = "created" THEN handleComment(r)
  ELSE Respond(r, 200)

\* ------------------------------------------------------------ handleWebhook
Dispatch(r) ==
  IF r.in.action = "labeled" THEN handleLabeled(r)
  ELSE IF r.in.action = "created" /\ r.in.hasComment THEN handleComment(r)
  ELSE Respond(r, 200)

\* the payload is first read (payload.action) after the signature check
handleWebhook(r, in) ==
  LET v == verifyWebhook(RawBody, r.sig, WebhookSecret)
      r1 == Logged(r, Ev("verifyWebhook", "", 0, "", "", "", 0, v = "true"))
  IN IF v = "throw" THEN RouteCatch(r1, "RangeError")
     ELSE IF v = "false" THEN RouteCatch(r1, "Invalid webhook signature")
     ELSE Dispatch([r1 EXCEPT !.in = in])

\* router.post("/webhook"): a missing signature header is answered at once
WebhookRoute(r, in) ==
  IF r.sig = EmptyStr THEN Respond(r, 401) ELSE handleWebhook(r, in)


\* ------------------------------------------------------------------ actions
Set(s, r) == slot' = [slot EXCEPT ![s] = r]

\* what the tracker keeps of a posted comment: the comment carries the type
\* of the account the token belongs to; isBountyAlreadyClaimed looks for
\* comment.user.type === "Bot" && claimPattern.test(comment.body)
Posted(repo, num, kind) ==
  claimMarker' = [claimMarker EXCEPT ![<<repo, num>>] =
                    @ \/ (botAccount /\ claimPattern(MsgWords(kind)))]

CommentEv(r, num, kind, err, amt, ok) ==
  Ev("postComment", r.in.repo, num, "", kind, err, amt, ok)

\* the route has responded: the request and the handler's locals are gone
Finish(s) ==
  /\ slot[s].pc = "done"
  /\ Set(s, IdleSlot)
  /\ UNCHANGED <<call, cfg, botAccount, payouts, claimed, ledger, fundings, claimMarker, handled>>

\* a delivery arrives while no other is being handled
Receive ==
  /\ handled < MaxDeliveries
  /\ \A t \in Slots : slot[t].pc = "idle"
  /\ \E in \in Payloads, sig \in Signatures :
       Set(1, WebhookRoute([IdleSlot EXCEPT !.sig = sig], in))
  /\ handled' = handled + 1
  /\ UNCHANGED <<call, cfg, botAccount, payouts, claimed, ledger, fundings, claimMarker>>

\* a comment after which the handler returns; its failure is not caught
FinalCommentDone(s) ==
  LET r == slot[s] IN
  /\ r.pc = "finalComment"
  /\ \/ /\ Set(s, Respond(Logged(r, CommentEv(r, r.pend.num, r.pend.kind, r.pend.err, 0, TRUE)), 200))
        /\ Posted(r.in.repo, r.pend.num, r.pend.kind)
     \/ /\ Set(s, RouteCatch(Logged(r, CommentEv(r, r.pend.num, r.pend.kind, r.pend.err, 0, FALSE)),
                             "Failed to post comment"))
        /\ UNCHANGED claimMarker
  /\ UNCHANGED <<call, cfg, botAccount, payouts, claimed, ledger, fundings, handled>>

\* mutation of NotifyDone: the failure of a provider is not caught
NotifyDoneUncaught(s) ==
  LET r == slot[s] IN
  /\ r.pc = "notify"
  /\ \E ok \in BOOLEAN :
       LET r1 == Logged(r, Ev("notify", r.in.repo,
                              IF r.evt = "bounty_claimed" THEN r.linked.number ELSE r.in.number,
                              Providers[r.ni], r.evt, "",
                              IF r.evt = "bounty_claimed" THEN r.linked.bountyAmount
                              ELSE IF r.evt = "bounty_created" THEN r.amount ELSE 0,
                              ok))
       IN Set(s, IF ~ok THEN RouteCatch(r1, "Notification failed")
                 ELSE IF r.ni < Len(Providers) THEN [r1 EXCEPT !.ni = r.ni + 1]
                 ELSE Respond(r1, 200))
  /\ UNCHANGED <<call, cfg, botAccount, payouts, claimed, ledger, fundings, claimMarker, handled>>

\* provider.notify(data) inside the try/catch of notifyAll
NotifyDone(s) ==
  LET r == slot[s] IN
  /\ r.pc = "notify"
  /\ \E ok \in BOOLEAN :
       LET r1 == Logged(r, Ev("notify", r.in.repo,
                              IF r.evt = "bounty_claimed" THEN r.linked.number ELSE r.in.number,
                              Providers[r.ni], r.evt, "",
                              IF r.evt = "bounty_claimed" THEN r.linked.bountyAmount
                              ELSE IF r.evt = "bounty_created" THEN r.amount ELSE 0,
                              ok))
       IN Set(s, IF r.ni < Len(Providers) THEN [r1 EXCEPT !.ni = r.ni + 1]
                 ELSE Respond(r1, 200))
  /\ UNCHANGED <<call, cfg, botAccount, payouts, claimed, ledger, fundings, claimMarker, handled>>

\* ---- bounty creation
CheckIsMaintainerDone(s) ==
  LET r == slot[s] IN
  /\ r.pc = "checkIsMaintainer"
  /\ \E ok \in BOOLEAN, isMaintainer \in BOOLEAN :
       \* a failed permission lookup is answered false by the provider
       /\ ~ok => ~isMaintainer
       /\ LET r1 == Logged(r, Ev("checkIsMaintainer", r.in.repo, 0, r.in.sender,
                                 IF isMaintainer THEN "yes" ELSE "no", "", 0, ok))
          IN Set(s, IF ~isMaintainer
                    THEN FinalComment(r1, r.in.number, "NotMaintainer", "")
                    ELSE AfterMaintainerCheck(r1))
  /\ UNCHANGED <<call, cfg, botAccount, payouts, claimed, ledger, fundings, claimMarker, handled>>

\* connection.getAccountInfo(escrowPda) in createEscrow
CreateLookupDone(s) ==
  LET r == slot[s]
      p == <<r.in.repo, r.in.number>> IN
  /\ r.pc = "createLookup"
  /\ \/ Set(s, CreateEscrowThrows(
                 Logged(r, Ev("getAccountInfo", p[1], p[2], "", "", "", 0, FALSE)),
                 "RPC error"))
     \/ LET exists == ledger[p].status # "absent"
            r1 == Logged(r, Ev("getAccountInfo", p[1], p[2], "",
                               IF exists THEN "exists" ELSE "absent", "", 0, TRUE))
        IN Set(s, AfterCreateLookup(r1, exists))
  /\ UNCHANGED <<call, cfg, botAccount, payouts, claimed, ledger, fundings, claimMarker, handled>>

\* mutation of CreateSendDone: the ledger funds an escrow that exists
CreateSendDoneAccepting(s) ==
  LET r == slot[s]
      p == <<r.in.repo, r.in.number>> IN
  /\ r.pc = "createSend"
  /\ \/ /\ Set(s, CreateEscrowThrows(
                    Logged(r, Ev("sendTransaction", p[1], p[2], "", "CreateEscrow", "", r.amount, FALSE)),
                    "RPC error"))
        /\ UNCHANGED <<ledger, fundings>>
     \/ /\ Set(s, [Logged(r, Ev("sendTransaction", p[1], p[2], "", "CreateEscrow", "", r.amount, TRUE))
                     EXCEPT !.pc = "createConfirm"])
        /\ ledger' = [ledger EXCEPT ![p] = [status |-> "funded", amount |-> r.amount]]
        /\ fundings' = [fundings EXCEPT ![p] = @ + 1]
  /\ UNCHANGED <<call, cfg, botAccount, payouts, claimed, claimMarker, handled>>

\* connection.sendTransaction of the CreateEscrow instruction
CreateSendDone(s) ==
  LET r == slot[s]
      p == <<r.in.repo, r.in.number>> IN
  /\ r.pc = "createSend"
  /\ \/ /\ Set(s, CreateEscrowThrows(
                    Logged(r, Ev("sendTransaction", p[1], p[2], "", "CreateEscrow", "", r.amount, FALSE)),
                    "RPC error"))
        /\ UNCHANGED <<ledger, fundings>>
     \/ /\ ledger[p].status = "absent"
        /\ Set(s, [Logged(r, Ev("sendTransaction", p[1], p[2], "", "CreateEscrow", "", r.amount, TRUE))
                     EXCEPT !.pc = "createConfirm"])
        /\ ledger' = [ledger EXCEPT ![p] = [status |-> "funded", amount |-> r.amount]]
        /\ fundings' = [fundings EXCEPT ![p] = @ + 1]
  /\ UNCHANGED <<call, cfg, botAccount, payouts, claimed, claimMarker, handled>>

CreateConfirmDone(s) ==
  LET r == slot[s]
      p == <<r.in.repo, r.in.number>> IN
  /\ r.pc = "createConfirm"
  /\ \/ Set(s, CreateEscrowThrows(
                 Logged(r, Ev("confirmTransaction", p[1], p[2], "", "", "", 0, FALSE)),
                 "RPC error"))
     \/ Set(s, [Logged(Logged(r, Ev("confirmTransaction", p[1], p[2], "", "", "", 0, TRUE)),
                       Ev("createEscrow.return", p[1], p[2], "", "", "", r.amount, TRUE))
                  EXCEPT !.pc = "createdComment"])
  /\ UNCHANGED <<call, cfg, botAccount, payouts, claimed, ledger, fundings, claimMarker, handled>>

\* the instructional comment, inside the try block of handleLabeled
CreatedCommentDone(s) ==
  LET r == slot[s] IN
  /\ r.pc = "createdComment"
  /\ \/ /\ Set(s, NotifyAll(Logged(r, CommentEv(r, r.in.number, "EscrowCreated", "", r.amount, TRUE)),
                            "bounty_created"))
        /\ Posted(r.in.repo, r.in.number, "EscrowCreated")
     \/ /\ Set(s, CreateCatch(Logged(r, CommentEv(r, r.in.number, "EscrowCreated", "", r.amount, FALSE)),
                              "Failed to post comment"))
        /\ UNCHANGED claimMarker
  /\ UNCHANGED <<call, cfg, botAccount, payouts, claimed, ledger, fundings, handled>>

\* ---- /assign
AssignIssueDone(s) ==
  LET r == slot[s] IN
  /\ r.pc = "assignIssue"
  /\ \/ Set(s, [Logged(r, Ev("assignIssue", r.in.repo, r.in.number, r.in.commenter, "", "", 0, TRUE))
                  EXCEPT !.pc = "assignedComment"])
     \/ Set(s, AssignCatch(Logged(r, Ev("assignIssue", r.in.repo, r.in.number, r.in.commenter, "", "", 0, FALSE)),
                           "Failed to assign issue"))
  /\ UNCHANGED <<call, cfg, botAccount, payouts, claimed, ledger, fundings, claimMarker, handled>>

AssignedCommentDone(s) ==
  LET r == slot[s] IN
  /\ r.pc = "assignedComment"
  /\ \/ /\ Set(s, NotifyAll(Logged(r, CommentEv(r, r.in.number, "Assigned", "", 0, TRUE)), "assignment"))
        /\ Posted(r.in.repo, r.in.number, "Assigned")
     \/ /\ Set(s, AssignCatch(Logged(r, CommentEv(r, r.in.number, "Assigned", "", 0, FALSE)),
                              "Failed to post comment"))
        /\ UNCHANGED claimMarker
  /\ UNCHANGED <<call, cfg, botAccount, payouts, claimed, ledger, fundings, handled>>


\* ---- /claim: the answers of the issue tracker
CrossRefLists == { <<>>, <<1>> }
SearchLists   == { <<>>, <<2>> }
LabelLists == { <<"bug">>, <<"bug", "bounty-1-sol">>,
                <<"bounty-2-sol", "bounty-1-sol">> }

\* issueProvider.getPullRequest, then checks 1 and 2
GetPullRequestDone(s) ==
  LET r == slot[s] IN
  /\ r.pc = "getPullRequest"
  /\ \/ Set(s, Rejects(Logged(r, Ev("getPullRequest", r.in.repo, r.in.number, "", "", "", 0, FALSE)),
                       "VerifyPRFailed", "Failed to get PR"))
     \/ \E merged \in BOOLEAN, author \in Users, body \in PRBodies :
          Set(s, AfterPullRequest(
                   Logged(r, Ev("getPullRequest", r.in.repo, r.in.number, author,
                                IF merged THEN "merged" ELSE "open", "", 0, TRUE)),
                   merged, author, body))
  /\ UNCHANGED <<call, cfg, botAccount, payouts, claimed, ledger, fundings, claimMarker, handled>>

\* findLinkedIssueWithBounty: the timeline of the PR; a failure is swallowed
PrTimelineDone(s) ==
  LET r == slot[s] IN
  /\ r.pc = "prTimeline"
  /\ \/ Set(s, [Logged(r, Ev("findLinked.timeline", r.in.repo, r.in.number, "", "", "", 0, FALSE))
                  EXCEPT !.pc = "searchIssues"])
     \/ \E crossReferences \in CrossRefLists :
          Set(s, [Logged(r, Ev("findLinked.timeline", r.in.repo, r.in.number, "", "", "", 0, TRUE))
                    EXCEPT !.pc = "searchIssues", !.cands = @ \o crossReferences,
                           !.crossReferences = crossReferences])
  /\ UNCHANGED <<call, cfg, botAccount, payouts, claimed, ledger, fundings, claimMarker, handled>>

\* findLinkedIssueWithBounty: the closed-by search; a failure is swallowed;
\* then uniqueIssues = [...new Set(issueNumbers)] and the loop starts
SearchIssuesDone(s) ==
  LET r == slot[s] IN
  /\ r.pc = "searchIssues"
  /\ \/ Set(s, CheckCandidate(
                 [Logged(r, Ev("findLinked.search", r.in.repo, r.in.number, "", "", "", 0, FALSE))
                    EXCEPT !.cands = Dedupe(@)], 1))
     \/ \E searchedIssues \in SearchLists :
          Set(s, CheckCandidate(
                   [Logged(r, Ev("findLinked.search", r.in.repo, r.in.number, "", "", "", 0, TRUE))
                      EXCEPT !.cands = Dedupe(@ \o searchedIssues),
                             !.searchedIssues = searchedIssues], 1))
  /\ UNCHANGED <<call, cfg, botAccount, payouts, claimed, ledger, fundings, claimMarker, handled>>

\* findLinkedIssueWithBounty: getIssue of one candidate and the label loop
GetIssueDone(s) ==
  LET r == slot[s]
      n == r.cands[r.ci] IN
  /\ r.pc = "getIssue"
  /\ \/ Set(s, CheckCandidate(
                 Logged(r, Ev("findLinked.getIssue", r.in.repo, n, "", "", "", 0, FALSE)),
                 r.ci + 1))
     \/ \E labels \in LabelLists :
          LET label == firstBountyLabel(labels, 1)
              r1 == [Logged(r, Ev("findLinked.getIssue", r.in.repo, n, "", label, "", 0, TRUE))
                       EXCEPT !.fetched = labels]
          IN Set(s, IF label # ""
                    THEN EnterStage4([r1 EXCEPT !.found =
                           [number |-> n, bountyAmount |-> bountyConfig(label), label |-> label]])
                    ELSE CheckCandidate(r1, r.ci + 1))
  /\ UNCHANGED <<call, cfg, botAccount, payouts, claimed, ledger, fundings, claimMarker, handled>>

\* wasUserEverAssigned: getIssue is outside its try block, so a failure
\* reaches the catch of check 4
AssigneeIssueDone(s) ==
  LET r == Resolved(slot[s]) IN
  /\ r.pc = "assigneeIssue"
  /\ \/ Set(s, Rejects(Logged(r, Ev("wasAssigned.getIssue", r.in.repo, r.found.number, r.in.commenter, "", "", 0, FALSE)),
                       "VerifyAssignmentFailed", "Failed to get issue"))
     \/ \E isAssignee \in BOOLEAN :
          LET r1 == Logged(r, Ev("wasAssigned.getIssue", r.in.repo, r.found.number, r.in.commenter,
                                 IF isAssignee THEN "yes" ELSE "no", "", 0, TRUE))
          IN Set(s, IF isAssignee THEN EnterStage5(r1)
                    ELSE [r1 EXCEPT !.pc = "assigneeTimeline"])
  /\ UNCHANGED <<call, cfg, botAccount, payouts, claimed, ledger, fundings, claimMarker, handled>>

\* wasUserEverAssigned: the timeline of the issue; a failure answers false
AssigneeTimelineDone(s) ==
  LET r == slot[s] IN
  /\ r.pc = "assigneeTimeline"
  /\ \E ok \in BOOLEAN, wasAssigned \in BOOLEAN :
       /\ ~ok => ~wasAssigned
       /\ LET r1 == Logged(r, Ev("wasAssigned.timeline", r.in.repo, r.found.number, r.in.commenter,
                                 IF wasAssigned THEN "yes" ELSE "no", "", 0, ok))
          IN Set(s, IF wasAssigned THEN EnterStage5(r1)
                    ELSE Rejects(r1, "NotAssigned", ""))
  /\ UNCHANGED <<call, cfg, botAccount, payouts, claimed, ledger, fundings, claimMarker, handled>>

\* isBountyAlreadyClaimed: the comments of the linked issue; check 5
ListCommentsDone(s) ==
  LET r == Resolved(slot[s]) IN
  /\ r.pc = "listComments"
  /\ \/ Set(s, claimLookupFails(r))
     \/ LET alreadyClaimed == claimMarker[<<r.in.repo, r.found.number>>]
            r1 == Logged(r, Ev("isClaimed.listComments", r.in.repo, r.found.number, "",
                               IF alreadyClaimed THEN "yes" ELSE "no", "", 0, TRUE))
        IN Set(s, IF alreadyClaimed THEN Rejects(r1, "AlreadyClaimed", "")
                  ELSE Accepts(r1))
  /\ UNCHANGED <<call, cfg, botAccount, payouts, claimed, ledger, fundings, claimMarker, handled>>

\* for (const error of validation.errors) await postComment(repo, prNumber, error)
ErrorCommentDone(s) ==
  LET r == Trimmed(slot[s])
      e == r.errors[r.ni] IN
  /\ r.pc = "errorComment"
  /\ \/ /\ Set(s, LET r1 == Logged(r, CommentEv(r, r.in.number, e.kind, e.err, 0, TRUE))
                  IN IF r.ni < Len(r.errors) THEN [r1 EXCEPT !.ni = r.ni + 1]
                     ELSE Respond(r1, 200))
        /\ Posted(r.in.repo, r.in.number, e.kind)
     \/ /\ Set(s, RouteCatch(Logged(r, CommentEv(r, r.in.number, e.kind, e.err, 0, FALSE)),
                             "Failed to post comment"))
        /\ UNCHANGED claimMarker
  /\ UNCHANGED <<call, cfg, botAccount, payouts, claimed, ledger, fundings, handled>>

\* connection.getAccountInfo(escrowPda) in releaseEscrow
ReleaseLookupDone(s) ==
  LET r == Trimmed(slot[s])
      p == <<r.in.repo, r.linked.number>> IN
  /\ r.pc = "releaseLookup"
  /\ \/ Set(s, ReleaseEscrowThrows(
                 Logged(r, Ev("getAccountInfo", p[1], p[2], "", "", "", 0, FALSE)),
                 "RPC error"))
     \/ LET exists == ledger[p].status # "absent"
            r1 == Logged(r, Ev("getAccountInfo", p[1], p[2], "",
                               IF exists THEN "exists" ELSE "absent", "", 0, TRUE))
        IN Set(s, AfterReleaseLookup(r1, exists))
  /\ UNCHANGED <<call, cfg, botAccount, payouts, claimed, ledger, fundings, claimMarker, handled>>

\* mutation of ReleaseSendDone: the ledger pays an escrow out again
ReleaseSendDonePaysAgain(s) ==
  LET r == slot[s]
      p == <<r.in.repo, r.linked.number>> IN
  /\ r.pc = "releaseSend"
  /\ \/ /\ Set(s, ReleaseEscrowThrows(
                    Logged(r, Ev("sendTransaction", p[1], p[2], r.wallet, "ReleaseEscrow", "", 0, FALSE)),
                    "RPC error"))
        /\ UNCHANGED <<ledger, payouts>>
     \/ /\ ledger[p].status # "absent"
        /\ Set(s, [Logged(r, Ev("sendTransaction", p[1], p[2], r.wallet, "ReleaseEscrow", "", 0, TRUE))
                     EXCEPT !.pc = "releaseConfirm"])
        /\ ledger' = [ledger EXCEPT ![p] = [status |-> "paid", amount |-> 0]]
        /\ payouts' = [payouts EXCEPT ![p] = @ + 1]
  /\ UNCHANGED <<call, cfg, botAccount, claimed, fundings, claimMarker, handled>>

\* connection.sendTransaction of the ReleaseEscrow instruction; the program
\* pays a funded escrow out once, and either closes the account or keeps it;
\* the entry of an executed transaction records the lamports it moved
ReleaseSendDone(s) ==
  LET r == slot[s]
      p == <<r.in.repo, r.linked.number>> IN
  /\ r.pc = "releaseSend"
  /\ \/ /\ Set(s, ReleaseEscrowThrows(
                    Logged(r, Ev("sendTransaction", p[1], p[2], r.wallet, "ReleaseEscrow", "", 0, FALSE)),
                    "RPC error"))
        /\ UNCHANGED <<ledger, payouts>>
     \/ /\ ledger[p].status = "funded"
        /\ Set(s, [Logged(r, Ev("sendTransaction", p[1], p[2], r.wallet, "ReleaseEscrow", "",
                                  ledger[p].amount, TRUE))
                     EXCEPT !.pc = "releaseConfirm"])
        /\ \E after \in {"absent", "paid"} :
             ledger' = [ledger EXCEPT ![p] = [status |-> after, amount |-> 0]]
        /\ payouts' = [payouts EXCEPT ![p] = @ + 1]
  /\ UNCHANGED <<call, cfg, botAccount, claimed, fundings, claimMarker, handled>>

ReleaseConfirmDone(s) ==
  LET r == slot[s]
      p == <<r.in.repo, r.linked.number>> IN
  /\ r.pc = "releaseConfirm"
  /\ \/ /\ Set(s, ReleaseEscrowThrows(
                    Logged(r, Ev("confirmTransaction", p[1], p[2], "", "", "", 0, FALSE)),
                    "RPC error"))
     \/ /\ Set(s, [Logged(Logged(r, Ev("confirmTransaction", p[1], p[2], "", "", "", 0, TRUE)),
                       Ev("releaseEscrow.return", p[1], p[2], r.wallet, "", "", 0, TRUE))
                  EXCEPT !.pc = "releasedComment"])
  /\ UNCHANGED <<call, cfg, botAccount, payouts, claimed, ledger, fundings, claimMarker, handled>>

\* the success comment on the PR, inside the try block of handleClaim
ReleasedCommentDone(s) ==
  LET r == slot[s] IN
  /\ r.pc = "releasedComment"
  /\ \/ /\ Set(s, [Logged(r, CommentEv(r, r.in.number, "Released", "", r.linked.bountyAmount, TRUE))
                     EXCEPT !.pc = "claimedComment"])
        /\ Posted(r.in.repo, r.in.number, "Released")
     \/ /\ Set(s, ReleaseCatch(Logged(r, CommentEv(r, r.in.number, "Released", "", r.linked.bountyAmount, FALSE)),
                               "Failed to post comment"))
        /\ UNCHANGED claimMarker
  /\ UNCHANGED <<call, cfg, botAccount, payouts, claimed, ledger, fundings, handled>>

\* the "Bounty claimed" comment on the linked issue
ClaimedCommentDone(s) ==
  LET r == slot[s] IN
  /\ r.pc = "claimedComment"
  /\ \/ /\ Set(s, NotifyAll(Logged(r, CommentEv(r, r.linked.number, "Claimed", "", 0, TRUE)),
                            "bounty_claimed"))
        /\ Posted(r.in.repo, r.linked.number, "Claimed")
        /\ claimed' = [claimed EXCEPT ![<<r.in.repo, r.linked.number>>] = TRUE]
     \/ /\ Set(s, ReleaseCatch(Logged(r, CommentEv(r, r.linked.number, "Claimed", "", 0, FALSE)),
                               "Failed to post comment"))
        /\ UNCHANGED <<claimMarker, claimed>>
  /\ UNCHANGED <<call, cfg, botAccount, payouts, ledger, fundings, handled>>

Step(s) ==
  \/ Finish(s)
  \/ FinalCommentDone(s)
  \/ NotifyDone(s)
  \/ CheckIsMaintainerDone(s)
  \/ CreateLookupDone(s)
  \/ CreateSendDone(s)
  \/ CreateConfirmDone(s)
  \/ CreatedCommentDone(s)
  \/ AssignIssueDone(s)
  \/ AssignedCommentDone(s)
  \/ GetPullRequestDone(s)
  \/ PrTimelineDone(s)
  \/ SearchIssuesDone(s)
  \/ GetIssueDone(s)
  \/ AssigneeIssueDone(s)
  \/ AssigneeTimelineDone(s)
  \/ ListCommentsDone(s)
  \/ ErrorCommentDone(s)
  \/ ReleaseLookupDone(s)
  \/ ReleaseSendDone(s)
  \/ ReleaseConfirmDone(s)
  \/ ReleasedCommentDone(s)
  \/ ClaimedCommentDone(s)

Next == Receive \/ \E s \in Slots : Step(s)

Spec == Init /\ [][Next]_vars

\* Every external call eventually returns or fails: a delivery that awaits
\* one is eventually resumed.  Nothing is assumed about the arrival of
\* deliveries.  The configuration is the default one, with a Bot token.
LiveInit == Init /\ cfg = Unset /\ botAccount

LiveSpec == LiveInit /\ [][Next]_vars /\ \A s \in Slots : WF_vars(Step(s))

\* ------------------------------------------- verifyGitHubSignature on its own
\* The function applied to arbitrary arguments: a body, a secret and a header
\* value are chosen; the sender may sign the body under the secret, the body
\* may then be altered in transit, and the receiver verifies.
programVars == <<cfg, botAccount, ledger, fundings, payouts, claimed, claimMarker, handled, slot>>

SigInit ==
  /\ \E b \in Bodies, k \in Secrets, sig \in SignatureStrings :
       call = [stage |-> "input", body |-> b, signed |-> 0, signature |-> sig,
               secret |-> k, result |-> "none"]
  /\ cfg = Unset
  /\ botAccount = FALSE
  /\ ledger = [p \in Pairs |-> [status |-> "absent", amount |-> 0]]
  /\ fundings = [p \in Pairs |-> 0]
  /\ payouts = [p \in Pairs |-> 0]
  /\ claimed = [p \in Pairs |-> FALSE]
  /\ claimMarker = [p \in Pairs |-> FALSE]
  /\ handled = 0
  /\ slot = [s \in Slots |-> IdleSlot]

\* the sender computes `sha256=${hmac.digest("hex")}` over the body
SignPayload ==
  /\ call.stage = "input"
  /\ call' = [call EXCEPT !.stage = "signed", !.signed = call.body,
                          !.signature = expectedSignature(call.body, call.secret)]
  /\ UNCHANGED programVars

\* the body that arrives differs from the body that was signed
AlterPayload ==
  /\ call.stage = "signed"
  /\ \E b \in Bodies \ {call.signed} :
       call' = [call EXCEPT !.stage = "altered", !.body = b]
  /\ UNCHANGED programVars

\* verifyGitHubSignature(rawBody, signature, secret)
VerifySignature ==
  /\ call.stage \in {"input", "signed", "altered"}
  /\ call' = [call EXCEPT !.stage = IF call.stage = "input" THEN "verified"
                                    ELSE call.stage \o "+verified",
                          !.result = verifyGitHubSignature(call.body, call.signature, call.secret)]
  /\ UNCHANGED programVars

SigNext == SignPayload \/ AlterPayload \/ VerifySignature

SigSpec == SigInit /\ [][SigNext]_vars

\* ------------------------------------------------ the escrow address on its own
\* the BountyManager and the ledger as constructed, no delivery in progress
ProgramAtRest ==
  /\ cfg = Unset
  /\ botAccount = FALSE
  /\ ledger = [p \in Pairs |-> [status |-> "absent", amount |-> 0]]
  /\ fundings = [p \in Pairs |-> 0]
  /\ payouts = [p \in Pairs |-> 0]
  /\ claimed = [p \in Pairs |-> FALSE]
  /\ claimMarker = [p \in Pairs |-> FALSE]
  /\ handled = 0
  /\ slot = [s \in Slots |-> IdleSlot]

\* Buffer.from("escrow"): the bytes of the domain tag
EscrowTag == <<101, 115, 99, 114, 111, 119>>

\* mutation of numberToLeBytes: only the low byte is written
numberToLeBytesLow(num) == <<num % 256, 0, 0, 0, 0, 0, 0, 0>>

\* buffer.writeBigUInt64LE(BigInt(num)) into 8 bytes: the byte at offset i
\* is (num / 256^i) mod 256
RECURSIVE LeBytes(_, _)
LeBytes(num, width) ==
  IF width = 0 THEN <<>> ELSE <<num % 256>> \o LeBytes(num \div 256, width - 1)

\* mutation of numberToLeBytes: the most significant byte comes first
numberToLeBytesBig(num) ==
  LET le == LeBytes(num, 8) IN [i \in 1..8 |-> le[9 - i]]

numberToLeBytes(num) == LeBytes(num, 8)

\* PublicKey.findProgramAddressSync(seeds, programId): a hash of the seeds
\* written one after the other, without separators, and of the program id.
\* The hash is written as what it hashes, so two addresses are equal exactly
\* when the concatenated seed bytes and the program ids are.
RECURSIVE Concat(_)
Concat(seeds) == IF seeds = <<>> THEN <<>> ELSE Head(seeds) \o Concat(Tail(seeds))

findProgramAddressSync(seeds, programId) ==
  [bytes |-> Concat(seeds), programId |-> programId]

\* the escrowPda of createEscrow, of releaseEscrow and of escrowExists
createEscrowPda(programId, repositoryHash, issueNumber) ==
  findProgramAddressSync(<<EscrowTag, repositoryHash, numberToLeBytes(issueNumber)>>, programId)

releaseEscrowPda(programId, repositoryHash, issueNumber) ==
  findProgramAddressSync(<<EscrowTag, repositoryHash, numberToLeBytes(issueNumber)>>, programId)

escrowExistsPda(programId, repositoryHash, issueNumber) ==
  findProgramAddressSync(<<EscrowTag, repositoryHash, numberToLeBytes(issueNumber)>>, programId)

\* the arguments: two program ids, 32-byte digests that differ in their
\* first or their last byte, and issue numbers around the byte boundaries
ProgramIds == {1, 2}
Digest(first, last) ==
  [i \in 1..32 |-> IF i = 1 THEN first ELSE IF i = 32 THEN last ELSE 0]
RepoHashes == {Digest(a, b) : a \in {0, 1}, b \in {0, 1}}
IssueNumbers == {1, 2, 255, 256, 257, 65537}
NoPda == [bytes |-> <<>>, programId |-> 0]

\* one provider (one program id) derives the address for two requests
PdaInit ==
  /\ \E id \in ProgramIds, h1 \in RepoHashes, n1 \in IssueNumbers,
        h2 \in RepoHashes, n2 \in IssueNumbers :
       call = [stage |-> 0, programId |-> id,
               hash1 |-> h1, num1 |-> n1, by1 |-> "", pda1 |-> NoPda,
               hash2 |-> h2, num2 |-> n2, by2 |-> "", pda2 |-> NoPda]
  /\ ProgramAtRest

\* the next request is served by `method`, which derives `pda`
Derived(method, pda) ==
  IF call.stage = 0
  THEN [call EXCEPT !.stage = 1, !.by1 = method, !.pda1 = pda]
  ELSE [call EXCEPT !.stage = 2, !.by2 = method, !.pda2 = pda]

NextHash == IF call.stage = 0 THEN call.hash1 ELSE call.hash2
NextNum == IF call.stage = 0 THEN call.num1 ELSE call.num2

CreateEscrowDerives ==
  /\ call.stage < 2
  /\ call' = Derived("createEscrow", createEscrowPda(call.programId, NextHash, NextNum))
  /\ UNCHANGED programVars

ReleaseEscrowDerives ==
  /\ call.stage < 2
  /\ call' = Derived("releaseEscrow", releaseEscrowPda(call.programId, NextHash, NextNum))
  /\ UNCHANGED programVars

EscrowExistsDerives ==
  /\ call.stage < 2
  /\ call' = Derived("escrowExists", escrowExistsPda(call.programId, NextHash, NextNum))
  /\ UNCHANGED programVars

PdaNext == CreateEscrowDerives \/ ReleaseEscrowDerives \/ EscrowExistsDerives

PdaSpec == PdaInit /\ [][PdaNext]_vars

\* ---------------------------------------------- numberToLeBytes on its own
\* The function applied to two numbers: the small ones, and the ones around
\* the powers of 256 up to the largest that fits a 32-bit signed integer.
MaxSmallNumber == 12

LeNumbers ==
  (0..MaxSmallNumber) \cup
  {255, 256, 257, 65535, 65536, 65537, 16777215, 16777216, 16777217,
   2147483647}

LeInit ==
  /\ \E n1 \in LeNumbers, n2 \in LeNumbers :
       call = [num1 |-> n1, bytes1 |-> <<>>, num2 |-> n2, bytes2 |-> <<>>]
  /\ ProgramAtRest

ConvertFirst ==
  /\ call.bytes1 = <<>>
  /\ call' = [call EXCEPT !.bytes1 = numberToLeBytes(call.num1)]
  /\ UNCHANGED programVars

ConvertSecond ==
  /\ call.bytes2 = <<>>
  /\ call' = [call EXCEPT !.bytes2 = numberToLeBytes(call.num2)]
  /\ UNCHANGED programVars

LeNext == ConvertFirst \/ ConvertSecond

LeSpec == LeInit /\ [][LeNext]_vars

\* ------------------------------------------ label deliveries handled at once
\* The route is an async function: while one delivery waits for an external
\* call the server accepts the next one.  Labeled deliveries with a valid
\* signature arrive while others are in progress; each is handled by the
\* same steps as above, interleaved at their awaits.
MaxRaceDeliveries == 2

LabelRaceInit == call = NoCall /\ ProgramAtRest

ReceiveLabeled ==
  /\ handled < MaxRaceDeliveries
  /\ \E s \in Slots, in \in FullLabeled :
       /\ slot[s].pc = "idle"
       /\ Set(s, WebhookRoute([IdleSlot EXCEPT !.sig = SigValid], in))
  /\ handled' = handled + 1
  /\ UNCHANGED <<call, cfg, botAccount, payouts, claimed, ledger, fundings, claimMarker>>

LabelStep(s) ==
  \/ Finish(s)
  \/ FinalCommentDone(s)
  \/ NotifyDone(s)
  \/ CheckIsMaintainerDone(s)
  \/ CreateLookupDone(s)
  \/ CreateSendDone(s)
  \/ CreateConfirmDone(s)
  \/ CreatedCommentDone(s)

LabelRaceNext == ReceiveLabeled \/ \E s \in Slots : LabelStep(s)

LabelRaceSpec == LabelRaceInit /\ [][LabelRaceNext]_vars

\* ----------------------------------------- /claim deliveries handled at once
\* An escrow has been created for issue #1 of the commented repository by an
\* earlier labeled delivery, the token is that of a Bot account, and /claim
\* comments on the pull request arrive while others are in progress.
ClaimedPair == <<"org/a", 1>>

ClaimRaceInit ==
  /\ call = NoCall
  /\ cfg = Unset
  /\ botAccount = TRUE
  /\ ledger = [p \in Pairs |->
                 IF p = ClaimedPair
                 THEN [status |-> "funded", amount |-> bountyConfig("bounty-1-sol")]
                 ELSE [status |-> "absent", amount |-> 0]]
  /\ fundings = [p \in Pairs |-> IF p = ClaimedPair THEN 1 ELSE 0]
  /\ payouts = [p \in Pairs |-> 0]
  /\ claimed = [p \in Pairs |-> FALSE]
  /\ claimMarker = [p \in Pairs |-> FALSE]
  /\ handled = 0
  /\ slot = [s \in Slots |-> IdleSlot]

ClaimPayloads == { in \in FullComments : in.isPR /\ StartsWithClaim(in.body) }

ReceiveClaim ==
  /\ handled < MaxRaceDeliveries
  /\ \E s \in Slots, in \in ClaimPayloads :
       /\ slot[s].pc = "idle"
       /\ Set(s, WebhookRoute([IdleSlot EXCEPT !.sig = SigValid], in))
  /\ handled' = handled + 1
  /\ UNCHANGED <<call, cfg, botAccount, payouts, claimed, ledger, fundings, claimMarker>>

ClaimStep(s) ==
  \/ Finish(s)
  \/ FinalCommentDone(s)
  \/ NotifyDone(s)
  \/ GetPullRequestDone(s)
  \/ PrTimelineDone(s)
  \/ SearchIssuesDone(s)
  \/ GetIssueDone(s)
  \/ AssigneeIssueDone(s)
  \/ AssigneeTimelineDone(s)
  \/ ListCommentsDone(s)
  \/ ErrorCommentDone(s)
  \/ ReleaseLookupDone(s)
  \/ ReleaseSendDone(s)
  \/ ReleaseConfirmDone(s)
  \/ ReleasedCommentDone(s)
  \/ ClaimedCommentDone(s)

ClaimRaceNext == ReceiveClaim \/ \E s \in Slots : ClaimStep(s)

ClaimRaceSpec == ClaimRaceInit /\ [][ClaimRaceNext]_vars

\* ------------------------------------------- the instruction data on its own
\* enum InstructionDiscriminator { CreateEscrow = 0, ReleaseEscrow = 1 }
InstructionDiscriminator(kind) == IF kind = "CreateEscrow" THEN 0 ELSE 1

\* mutation of serializeCreateEscrow: the issue number is written as a u32
serializeCreateEscrowU32(ins) ==
  ins.repo_hash \o LeBytes(ins.issue_number, 4) \o LeBytes(ins.amount, 8)

\* serialize(CreateEscrowSchema, ins): the fields of the struct in schema
\* order, repo_hash as its 32 bytes, each u64 as 8 little-endian bytes
serializeCreateEscrow(ins) ==
  ins.repo_hash \o LeBytes(ins.issue_number, 8) \o LeBytes(ins.amount, 8)

\* serialize(ReleaseEscrowSchema, ins)
serializeReleaseEscrow(ins) ==
  ins.repo_hash \o LeBytes(ins.issue_number, 8)

\* Buffer.concat([Buffer.from([discriminator]), Buffer.from(instructionData)])
createEscrowData(repositoryHash, issueNumber, amount) ==
  <<InstructionDiscriminator("CreateEscrow")>>
    \o serializeCreateEscrow([repo_hash |-> repositoryHash,
                              issue_number |-> issueNumber, amount |-> amount])

releaseEscrowData(repositoryHash, issueNumber) ==
  <<InstructionDiscriminator("ReleaseEscrow")>>
    \o serializeReleaseEscrow([repo_hash |-> repositoryHash,
                               issue_number |-> issueNumber])

\* the amounts: the configured ones, and small ones around a byte boundary
Amounts == {1, 256, bountyConfig("bounty-1-sol"), bountyConfig("bounty-2-sol")}

\* one logical record (digest, issue number, amount) is encoded twice
EncInit ==
  /\ \E h \in RepoHashes, n \in IssueNumbers, a \in Amounts :
       call = [stage |-> 0, hash |-> h, num |-> n, amount |-> a,
               by1 |-> "", data1 |-> <<>>, by2 |-> "", data2 |-> <<>>]
  /\ ProgramAtRest

Encoded(kind, data) ==
  IF call.stage = 0
  THEN [call EXCEPT !.stage = 1, !.by1 = kind, !.data1 = data]
  ELSE [call EXCEPT !.stage = 2, !.by2 = kind, !.data2 = data]

EncodeCreateEscrow ==
  /\ call.stage < 2
  /\ call' = Encoded("CreateEscrow", createEscrowData(call.hash, call.num, call.amount))
  /\ UNCHANGED programVars

EncodeReleaseEscrow ==
  /\ call.stage < 2
  /\ call' = Encoded("ReleaseEscrow", releaseEscrowData(call.hash, call.num))
  /\ UNCHANGED programVars

EncNext == EncodeCreateEscrow \/ EncodeReleaseEscrow

EncSpec == EncInit /\ [][EncNext]_vars


\* =============================================================== properties
\* ---- reading the log of a delivery
LogIdx(r) == 1..Len(r.log)
HasOp(r, op) == \E i \in LogIdx(r) : r.log[i].op = op
IsReleaseSend(e) == e.op = "sendTransaction" /\ e.msg = "ReleaseEscrow"
IsCreateSend(e) == e.op = "sendTransaction" /\ e.msg = "CreateEscrow"
IsComment(e, kinds) == e.op = "postComment" /\ e.msg \in kinds

\* two consecutive words of a text
HasPhrase(words, w1, w2) ==
  \E i \in 1..Len(words) : i < Len(words) /\ words[i] = w1 /\ words[i + 1] = w2

\* a ReleaseEscrow instruction has been handed to the ledger: sendTransaction
\* is awaited, or has completed
ReleaseSubmitted(r) ==
  r.pc = "releaseSend" \/ \E i \in LogIdx(r) : IsReleaseSend(r.log[i])

\* paymentProvider.releaseEscrow has been called
ReleaseAttempted(r) ==
  \/ r.pc \in {"releaseLookup", "releaseSend", "releaseConfirm"}
  \/ HasOp(r, "releaseEscrow.call")
  \/ ReleaseSubmitted(r)

\* getPullRequest has answered in this delivery
PRFetched(r) == r.pr.author # ""

\* the stage of validateClaim that issues a tracker query (checks 1 and 2
\* share getPullRequest); 6 is the return of validateClaim
StageOf(op) ==
  CASE op = "getPullRequest" -> 1
    [] op \in {"findLinked.timeline", "findLinked.search", "findLinked.getIssue"} -> 3
    [] op \in {"wasAssigned.getIssue", "wasAssigned.timeline"} -> 4
    [] op = "isClaimed.listComments" -> 5
    [] op = "validateClaim.return" -> 6
    [] OTHER -> 0

\* the stage an error message belongs to
FailedStage(kind) ==
  CASE kind \in {"NotMerged", "VerifyPRFailed"} -> 1
    [] kind = "NotAuthor" -> 2
    [] kind = "NoBounty" -> 3
    [] kind \in {"NotAssigned", "VerifyAssignmentFailed"} -> 4
    [] kind = "AlreadyClaimed" -> 5
    [] OTHER -> 0

\* C1: releaseEscrow is called, and a ReleaseEscrow instruction submitted,
\* only after validateClaim has returned isValid = true for the same pull
\* request and commenter in the same delivery; a delivery whose validation
\* returned isValid = false never calls releaseEscrow nor submits a
\* ReleaseEscrow instruction.
C1_ReleaseOnlyAfterValidClaim ==
  \A s \in Slots :
    LET r == slot[s] IN
    /\ ReleaseAttempted(r) =>
         /\ r.valid = "true"
         /\ \E j \in LogIdx(r) :
              /\ r.log[j].op = "validateClaim.return" /\ r.log[j].ok
              /\ r.log[j].num = r.in.number /\ r.log[j].who = r.in.commenter
              /\ \A i \in LogIdx(r) :
                   (r.log[i].op = "releaseEscrow.call" \/ IsReleaseSend(r.log[i])) => j < i
    /\ r.valid = "false" => ~ReleaseAttempted(r)
    /\ (\E j \in LogIdx(r) : r.log[j].op = "validateClaim.return" /\ ~r.log[j].ok)
         => ~ReleaseAttempted(r)

\* a claim was validated and its ReleaseEscrow instruction executed
C1_Witness ==
  \E s \in Slots :
    /\ slot[s].valid = "true"
    /\ \E i \in LogIdx(slot[s]) : IsReleaseSend(slot[s].log[i]) /\ slot[s].log[i].ok

\* C2 (amended): whenever a release is attempted the commenter is the author
\* of the pull request as fetched, and the recipient is the address of the
\* comment; a /claim by any other user yields isValid = false and no release,
\* with the 'Unauthorized claim' error when the pull request passed the merge
\* check and the 'must be merged' error when it did not.
C2_OnlyAuthorGetsRelease ==
  \A s \in Slots :
    LET r == slot[s]
        mergeCheckPassed == cfg.requireMergedPR = "false" \/ r.pr.merged
    IN
    /\ ReleaseAttempted(r) =>
         /\ PRFetched(r) /\ r.pr.author = r.in.commenter
         /\ r.wallet = walletToken(r.in.body)
    /\ (PRFetched(r) /\ r.pr.author # r.in.commenter) =>
         /\ r.valid = "false"
         /\ ~ReleaseAttempted(r)
         /\ Len(r.errors) = 1
         /\ mergeCheckPassed =>
              /\ r.errors[1].kind = "NotAuthor"
              /\ HasPhrase(MsgWords(r.errors[1].kind), "Unauthorized", "claim")
         /\ ~mergeCheckPassed => r.errors[1].kind = "NotMerged"

\* C2 as stated: a /claim by any user other than the fetched author yields
\* isValid = false with an 'Unauthorized claim' error.
C2_OtherUserGetsUnauthorized ==
  \A s \in Slots :
    LET r == slot[s] IN
    (PRFetched(r) /\ r.pr.author # r.in.commenter) =>
      /\ r.valid = "false"
      /\ \E i \in 1..Len(r.errors) :
           HasPhrase(MsgWords(r.errors[i].kind), "Unauthorized", "claim")

\* a user who is not the author claimed on a merged pull request and was
\* answered with the 'Unauthorized claim' comment
C2_Witness ==
  \E s \in Slots :
    LET r == slot[s] IN
    /\ PRFetched(r) /\ r.pr.author # r.in.commenter /\ r.pr.merged
    /\ r.pc = "done"
    /\ \E i \in LogIdx(r) : IsComment(r.log[i], {"NotAuthor"}) /\ r.log[i].ok

\* C3: handleWebhook verifies the signature before anything else; when the
\* verification returns false it throws 'Invalid webhook signature', the
\* payload is not read, no handler runs, and the delivery makes no call to
\* the tracker, the ledger or a notification provider.
C3_InvalidSignatureStopsDelivery ==
  \A s \in Slots :
    LET r == slot[s] IN
    /\ r.log # <<>> => r.log[1].op = "verifyWebhook"
    /\ \A i \in LogIdx(r) : i > 1 => r.log[1].ok /\ r.log[i].op # "verifyWebhook"
    /\ (r.sig # EmptyStr
        /\ verifyGitHubSignature(RawBody, r.sig, WebhookSecret) = "false") =>
         /\ r.pc = "done"
         /\ r.thrown = "Invalid webhook signature"
         /\ r.http = 401
         /\ Len(r.log) = 1 /\ ~r.log[1].ok
         /\ r.in = IdleSlot.in

\* a delivery with a forged signature of the right length was refused
C3_Witness ==
  \E s \in Slots :
    /\ slot[s].sig = SigForged
    /\ slot[s].pc = "done"
    /\ slot[s].thrown = "Invalid webhook signature"

\* C4: in deliveries handled one after another, a CreateEscrow instruction is
\* submitted only directly after the lookup of the derived address answered
\* "absent", and only while the account is absent; when the lookup answers
\* that the account exists, createEscrow fails with 'Escrow already exists'
\* and submits nothing.  Hence an address is funded at most once more than it
\* has been paid out: with no release in between, at most once.
C4_AtMostOneEscrowFunded ==
  /\ \A p \in Pairs : fundings[p] <= 1 + payouts[p]
  /\ \A s \in Slots :
       LET r == slot[s]
           p == <<r.in.repo, r.in.number>>
       IN
       /\ r.pc = "createSend" =>
            /\ ledger[p].status = "absent"
            /\ r.log[Len(r.log)].op = "getAccountInfo"
            /\ r.log[Len(r.log)].msg = "absent"
       /\ \A i \in LogIdx(r) :
            IsCreateSend(r.log[i]) =>
              /\ i > 1
              /\ r.log[i - 1].op = "getAccountInfo" /\ r.log[i - 1].msg = "absent"
              /\ r.log[i - 1].repo = r.log[i].repo /\ r.log[i - 1].num = r.log[i].num
              /\ r.log[i].repo = r.in.repo /\ r.log[i].num = r.in.number
       /\ \A i \in LogIdx(r) :
            (r.in.action = "labeled" /\ r.log[i].op = "getAccountInfo"
             /\ r.log[i].msg = "exists") =>
              /\ i < Len(r.log)
              /\ r.log[i + 1].op = "createEscrow.return" /\ ~r.log[i + 1].ok
              /\ r.log[i + 1].err = "Escrow already exists for this issue"
              /\ \A j \in LogIdx(r) : ~IsCreateSend(r.log[j])
       \* the lookup answers for the account as it is
       /\ \A i \in LogIdx(r) :
            (r.in.action = "labeled" /\ r.log[i].op = "getAccountInfo" /\ r.log[i].ok
             /\ \A j \in LogIdx(r) : ~(IsCreateSend(r.log[j]) /\ r.log[j].ok)) =>
              (r.log[i].msg = "exists" <=> ledger[p].status # "absent")

\* a second label on a funded issue: createEscrow failed with 'Escrow
\* already exists' and the address has been funded once
C4_Witness ==
  \E s \in Slots :
    LET r == slot[s]
        p == <<r.in.repo, r.in.number>>
    IN
    /\ r.in.action = "labeled" /\ r.pc = "done"
    /\ p \in Pairs /\ fundings[p] = 1 /\ payouts[p] = 0
    /\ \E i \in LogIdx(r) :
         /\ r.log[i].op = "createEscrow.return"
         /\ r.log[i].err = "Escrow already exists for this issue"

\* C5: when the lookup of releaseEscrow answers that the derived address
\* holds no account, releaseEscrow fails with 'Escrow does not exist' and no
\* ReleaseEscrow instruction is submitted; handleClaim then posts 'Failed to
\* release bounty' on the pull request, posts neither success comment, and
\* sends no bounty_claimed notification.  A ReleaseEscrow instruction is
\* submitted only while the account exists.
C5_ReleaseOfAbsentEscrowFails ==
  \A s \in Slots :
    LET r == slot[s]
        msg == "Escrow does not exist for this issue"
    IN
    /\ r.pc = "releaseSend" => ledger[<<r.in.repo, r.linked.number>>].status # "absent"
    /\ \A i \in LogIdx(r) :
         (r.valid = "true" /\ r.log[i].op = "getAccountInfo" /\ r.log[i].msg = "absent") =>
           /\ i < Len(r.log)
           /\ r.log[i + 1].op = "releaseEscrow.return" /\ ~r.log[i + 1].ok
           /\ r.log[i + 1].err = msg
           /\ ~ReleaseSubmitted(r)
           /\ \/ /\ r.pc = "finalComment"
                 /\ r.pend = [num |-> r.in.number, kind |-> "ReleaseFailed", err |-> msg]
              \/ /\ r.pc = "done"
                 /\ i + 2 = Len(r.log)
                 /\ IsComment(r.log[i + 2], {"ReleaseFailed"})
                 /\ r.log[i + 2].num = r.in.number /\ r.log[i + 2].err = msg
           /\ \A j \in LogIdx(r) :
                /\ ~IsComment(r.log[j], {"Released", "Claimed"})
                /\ ~(r.log[j].op = "notify" /\ r.log[j].msg = "bounty_claimed")

\* a valid claim whose escrow was never created: the failure comment is posted
C5_Witness ==
  \E s \in Slots :
    LET r == slot[s] IN
    /\ r.pc = "done" /\ r.http = 200
    /\ \E i \in LogIdx(r) :
         /\ r.log[i].op = "releaseEscrow.return"
         /\ r.log[i].err = "Escrow does not exist for this issue"
    /\ \E i \in LogIdx(r) : IsComment(r.log[i], {"ReleaseFailed"}) /\ r.log[i].ok

\* C6 as stated: once a claim of issue I has completed (release returned,
\* both success comments posted), no later /claim that resolves to I passes
\* validation, and no further ReleaseEscrow instruction is submitted for I.
C6_LaterClaimRejected ==
  \A s \in Slots :
    LET r == slot[s]
        p == <<r.in.repo, r.linked.number>>
    IN
    (r.pc \in {"releaseLookup", "releaseSend"} /\ p \in Pairs) => ~claimed[p]

\* a later /claim that resolves to a claimed issue is rejected at check 5
C6_Witness ==
  \E s \in Slots :
    LET r == slot[s] IN
    /\ r.found # NoLinked /\ claimed[<<r.in.repo, r.found.number>>]
    /\ r.valid = "false" /\ r.errors[1].kind = "AlreadyClaimed"

\* C7: the tracker queries of validateClaim are issued in the order of the
\* checks (merge and authorship on getPullRequest, linked issue, assignment,
\* already claimed); a check is entered only when every earlier check has
\* passed; a failed check returns isValid = false at once with its one error,
\* and no query is issued after validateClaim has returned.
C7_StagesOrderedShortCircuit ==
  \A s \in Slots :
    LET r == slot[s]
        checks12Passed ==
          /\ PRFetched(r)
          /\ cfg.requireMergedPR = "false" \/ r.pr.merged
          /\ r.pr.author = r.in.commenter
        check4Passed ==
          \/ cfg.skipAssignmentCheck = "true"
          \/ \E i \in LogIdx(r) : StageOf(r.log[i].op) = 4 /\ r.log[i].msg = "yes"
        NoneFrom(k) == \A i \in LogIdx(r) : StageOf(r.log[i].op) < k
    IN
    /\ \A i, j \in LogIdx(r) :
         (i < j /\ StageOf(r.log[i].op) > 0 /\ StageOf(r.log[j].op) > 0) =>
           /\ StageOf(r.log[i].op) <= StageOf(r.log[j].op)
           /\ StageOf(r.log[i].op) < 6
    /\ r.pc = "getPullRequest" => NoneFrom(1) /\ r.valid = "none"
    /\ r.pc \in {"prTimeline", "searchIssues", "getIssue"} =>
         checks12Passed /\ NoneFrom(4) /\ r.valid = "none"
    /\ r.pc \in {"assigneeIssue", "assigneeTimeline"} =>
         /\ checks12Passed /\ r.found # NoLinked
         /\ cfg.skipAssignmentCheck # "true"
         /\ NoneFrom(5) /\ r.valid = "none"
    /\ r.pc = "listComments" =>
         /\ checks12Passed /\ r.found # NoLinked /\ check4Passed
         /\ NoneFrom(5) /\ r.valid = "none"
    /\ \A i \in LogIdx(r) :
         /\ StageOf(r.log[i].op) \in {3, 4, 5} => checks12Passed
         /\ StageOf(r.log[i].op) \in {4, 5} => r.found # NoLinked
         /\ StageOf(r.log[i].op) = 5 => check4Passed
    /\ (r.valid = "false" /\ HasOp(r, "getPullRequest")) =>
         LET k == FailedStage(r.errors[1].kind) IN
         /\ Len(r.errors) = 1 /\ k > 0
         /\ r.pc = "errorComment"
         /\ r.log[Len(r.log)].op = "validateClaim.return" /\ ~r.log[Len(r.log)].ok
         /\ StageOf(r.log[Len(r.log) - 1].op) = (IF k = 2 THEN 1 ELSE k)
         /\ \A i \in LogIdx(r) : i < Len(r.log) => StageOf(r.log[i].op) <= k

\* the assignment check failed after the timeline was read: validateClaim
\* returned without entering check 5
C7_Witness ==
  \E s \in Slots :
    LET r == slot[s] IN
    /\ r.pc = "errorComment" /\ r.valid = "false"
    /\ r.errors[1].kind = "NotAssigned"
    /\ HasOp(r, "wasAssigned.timeline") /\ ~HasOp(r, "isClaimed.listComments")

\* C8: validateClaim returns isValid = true exactly when checks 1 to 4 passed
\* (check 4 passed or skipped) and check 5 did not report a prior claim: its
\* lookup answered "not claimed" or failed.  The result then carries the
\* linked issue, with the configured amount of its label, and no errors;
\* otherwise it carries errors and no linked issue.
C8_ValidExactlyWhenChecksPass ==
  \A s \in Slots :
    LET r == slot[s]
        checks1to4Passed ==
          /\ \E i \in LogIdx(r) : r.log[i].op = "getPullRequest" /\ r.log[i].ok
          /\ cfg.requireMergedPR = "false" \/ r.pr.merged
          /\ r.pr.author = r.in.commenter
          /\ r.found # NoLinked
          /\ \/ cfg.skipAssignmentCheck = "true"
             \/ \E i \in LogIdx(r) : StageOf(r.log[i].op) = 4 /\ r.log[i].msg = "yes"
        check5Clear ==
          \E i \in LogIdx(r) :
            /\ r.log[i].op = "isClaimed.listComments"
            /\ ~r.log[i].ok \/ r.log[i].msg = "no"
    IN
    /\ (r.valid # "none" /\ HasOp(r, "getPullRequest")) =>
         /\ r.valid = "true" <=> (checks1to4Passed /\ check5Clear)
         /\ r.valid = "true" => r.linked = r.found
    /\ r.valid = "true" =>
         /\ r.linked # NoLinked /\ r.errors = <<>>
         /\ r.linked.label \in ConfiguredLabels
         /\ r.linked.bountyAmount = bountyConfig(r.linked.label)
    /\ r.valid = "false" => r.linked = NoLinked /\ r.errors # <<>>

\* the lookup of check 5 failed and the claim was accepted
C8_Witness ==
  \E s \in Slots :
    LET r == slot[s] IN
    /\ r.valid = "true" /\ r.pc = "releaseLookup"
    /\ \E i \in LogIdx(r) : r.log[i].op = "isClaimed.listComments" /\ ~r.log[i].ok

\* C9: with requireMergedPR true or unset, a pull request fetched as not
\* merged is rejected by check 1 with the one error that mentions "merged";
\* no later check runs and no release is attempted.  With requireMergedPR
\* explicitly false an unmerged pull request is not rejected by check 1.
C9_UnmergedRejectedUnlessDisabled ==
  \A s \in Slots :
    LET r == slot[s] IN
    /\ (PRFetched(r) /\ ~r.pr.merged /\ cfg.requireMergedPR \in {"true", "unset"}) =>
         /\ r.valid = "false"
         /\ Len(r.errors) = 1 /\ r.errors[1].kind = "NotMerged"
         /\ \E i \in 1..Len(MsgWords(r.errors[1].kind)) :
              MsgWords(r.errors[1].kind)[i] = "merged"
         /\ ~ReleaseAttempted(r)
         /\ \A i \in LogIdx(r) : StageOf(r.log[i].op) \notin {3, 4, 5}
    /\ (PRFetched(r) /\ ~r.pr.merged /\ cfg.requireMergedPR = "false") =>
         \A i \in 1..Len(r.errors) : r.errors[i].kind # "NotMerged"

\* requireMergedPR is unset, the pull request is open: the 'must be merged'
\* comment was posted
C9_Witness ==
  \E s \in Slots :
    LET r == slot[s] IN
    /\ cfg.requireMergedPR = "unset"
    /\ PRFetched(r) /\ ~r.pr.merged /\ r.pc = "done"
    /\ \E i \in LogIdx(r) : IsComment(r.log[i], {"NotMerged"}) /\ r.log[i].ok

Range(seq) == { seq[i] : i \in 1..Len(seq) }

\* C10 as stated: the issue that findLinkedIssueWithBounty returns is
\* referenced by a closing keyword in the body of the pull request, by a
\* cross-reference event or by the closed-by search.
C10_LinkedOnlyByClosingReference ==
  \A s \in Slots :
    LET r == slot[s] IN
    (r.found # NoLinked /\ r.cands # <<>>) =>
      r.found.number \in Range(extractKeywordOnly(r.pr.body))
                          \cup Range(r.crossReferences) \cup Range(r.searchedIssues)

\* C11: unless skipAssignmentCheck is true, releaseEscrow is called only
\* when the tracker answered that the commenter is an assignee of the linked
\* issue or was assigned to it in its timeline; a commenter for whom both
\* lookups answer no (or the timeline lookup fails) is rejected by check 4
\* and check 5 is not entered.  When skipAssignmentCheck is true no
\* assignment lookup is made.
C11_ReleaseOnlyForAssignee ==
  \A s \in Slots :
    LET r == slot[s] IN
    /\ (r.pc = "releaseLookup" /\ cfg.skipAssignmentCheck # "true") =>
         \E i \in LogIdx(r) :
           /\ StageOf(r.log[i].op) = 4 /\ r.log[i].ok /\ r.log[i].msg = "yes"
           /\ r.log[i].who = r.in.commenter /\ r.log[i].num = r.linked.number
           /\ r.log[i].repo = r.in.repo
    /\ (\E i \in LogIdx(r) : r.log[i].op = "wasAssigned.timeline" /\ r.log[i].msg = "no") =>
         /\ cfg.skipAssignmentCheck # "true"
         /\ r.valid = "false"
         /\ r.errors = <<[kind |-> "NotAssigned", err |-> ""]>>
         /\ ~ReleaseAttempted(r)
         /\ ~HasOp(r, "isClaimed.listComments")
    /\ cfg.skipAssignmentCheck = "true" =>
         /\ r.pc \notin {"assigneeIssue", "assigneeTimeline"}
         /\ \A i \in LogIdx(r) : StageOf(r.log[i].op) # 4

\* skipAssignmentCheck is true: a claim was accepted and its release called
\* without any assignment lookup
C11_Witness ==
  \E s \in Slots :
    LET r == slot[s] IN
    /\ cfg.skipAssignmentCheck = "true"
    /\ r.pc = "releaseLookup" /\ r.valid = "true"
    /\ HasOp(r, "isClaimed.listComments")
    /\ \A i \in LogIdx(r) : StageOf(r.log[i].op) # 4

\* C12: when the comment listing of check 5 fails, validateClaim returns
\* isValid=true with no error and with the linked issue found by check 3,
\* and handleClaim calls releaseEscrow for that issue next.
C12_FailedClaimLookupAccepts ==
  \A s \in Slots :
    LET r == slot[s] IN
    \A i \in LogIdx(r) :
      (r.log[i].op = "isClaimed.listComments" /\ ~r.log[i].ok) =>
        /\ r.valid = "true" /\ r.errors = <<>>
        /\ r.linked = r.found /\ r.linked # NoLinked
        /\ r.linked.number = r.log[i].num
        /\ Len(r.log) = i + 2
        /\ r.log[i + 1].op = "validateClaim.return" /\ r.log[i + 1].ok
        /\ r.log[i + 2].op = "releaseEscrow.call"
        /\ r.log[i + 2].num = r.linked.number /\ r.log[i + 2].who = r.wallet
        /\ r.pc = "releaseLookup"

\* checks 1-4 ran and passed with the default configuration, the comment
\* listing failed and releaseEscrow has been called
C12_Witness ==
  \E s \in Slots :
    LET r == slot[s] IN
    /\ cfg = Unset
    /\ r.pr.merged /\ r.pr.author = r.in.commenter
    /\ \E i \in LogIdx(r) : StageOf(r.log[i].op) = 4 /\ r.log[i].msg = "yes"
    /\ \E i \in LogIdx(r) : r.log[i].op = "isClaimed.listComments" /\ ~r.log[i].ok
    /\ r.log[Len(r.log)].op = "releaseEscrow.call"

\* the delivery carries every field its handler requires
RequiredFieldsPresent(in) ==
  /\ in.action = "labeled" => ~labeledFieldsMissing(in)
  /\ (in.action = "created" /\ in.hasComment) => ~commentFieldsMissing(in)

\* C13: a delivery whose signature verifies and whose required fields are
\* present never makes handleWebhook throw, whichever external call fails.
C13_NoExternalFailurePropagates ==
  \A s \in Slots :
    LET r == slot[s] IN
    (r.sig = SigValid /\ RequiredFieldsPresent(r.in)) => r.thrown = ""

\* a failure of createEscrow was caught by handleLabeled and reported as a
\* comment; handleWebhook returned without throwing
C13_Witness ==
  \E s \in Slots :
    LET r == slot[s] IN
    /\ r.sig = SigValid /\ r.pc = "done" /\ r.thrown = "" /\ r.http = 200
    /\ \E i \in LogIdx(r) : r.log[i].op = "createEscrow.return" /\ ~r.log[i].ok
    /\ IsComment(r.log[Len(r.log)], {"CreateFailed"}) /\ r.log[Len(r.log)].ok

\* C14: the route answers 401 to every delivery whose signature is not the
\* expected one, 400 to every delivery rejected for missing required fields,
\* 200 to a delivery handled without a throw, and never 500 to a signature
\* or missing-field failure.
C14_RouteStatusCodes ==
  \A s \in Slots :
    LET r == slot[s] IN
    r.pc = "done" =>
      /\ r.sig # SigValid => r.http = 401
      /\ (r.sig = SigValid /\ ~RequiredFieldsPresent(r.in)) => r.http = 400
      /\ (r.sig = SigValid /\ r.thrown = "") => r.http = 200
      /\ r.http = 500 => (r.sig = SigValid /\ RequiredFieldsPresent(r.in))

\* a signature of the expected length under another secret is answered 401
C14_Witness ==
  \E s \in Slots :
    LET r == slot[s] IN
    /\ r.pc = "done" /\ r.sig = SigForged /\ r.http = 401
    /\ r.thrown = "Invalid webhook signature"

\* C15: verifyGitHubSignature returns a boolean for every body, signature
\* and secret and never throws; it returns false whenever the signature or
\* the secret is empty or the signature differs from the expected value.
C15_VerifyIsTotal ==
  call.result # "none" =>
    /\ call.result \in {"true", "false"}
    /\ ( \/ call.signature = EmptyStr
         \/ call.secret = 0
         \/ call.signature # expectedSignature(call.body, call.secret) )
       => call.result = "false"

\* an empty secret: the well-formed signature computed under it is refused
C15_Witness ==
  /\ call.stage = "signed+verified" /\ call.secret = 0
  /\ call.signature = expectedSignature(call.body, call.secret)
  /\ call.result = "false"

\* C16 as stated: for all payloads P and all secrets S, verifying P against
\* sign(P, S) under S is true, and verifying any other payload against
\* sign(P, S) under S is false.
C16_SignThenVerifyAllSecrets ==
  /\ call.stage = "signed+verified" => call.result = "true"
  /\ call.stage = "altered+verified" => call.result = "false"

\* C16: for all payloads P and all non-empty secrets S, verifying P against
\* sign(P, S) under S is true; for every secret, verifying a payload other
\* than P against sign(P, S) is false.
C16_SignThenVerify ==
  /\ (call.stage = "signed+verified" /\ call.secret # 0) =>
       /\ call.body = call.signed
       /\ call.signature = expectedSignature(call.signed, call.secret)
       /\ call.result = "true"
  /\ call.stage = "altered+verified" =>
       /\ call.body # call.signed
       /\ call.signature = expectedSignature(call.signed, call.secret)
       /\ call.result = "false"

\* a payload signed under a non-empty secret and altered in transit was
\* refused
C16_Witness ==
  /\ call.stage = "altered+verified" /\ call.secret # 0
  /\ call.body # call.signed /\ call.result = "false"

\* the permission lookup of a labeled delivery did not verify the sender
SenderNotVerified(r) ==
  \E i \in LogIdx(r) : r.log[i].op = "checkIsMaintainer" /\ r.log[i].msg = "no"

\* C17: with requireMaintainerForBountyCreation true or unset, a labeled
\* delivery whose sender is not verified as a maintainer (the lookup
\* answered no, or failed) makes one postComment call, the rejection on the
\* delivery's issue, and nothing else: createEscrow is not called, nothing
\* is sent to the ledger, no provider is notified, and no step of the
\* delivery changes the ledger.  With the policy active createEscrow is
\* called only after the lookup verified the sender.
C17_NonMaintainerOnlyRejected ==
  [][\A s \in Slots :
       LET r == slot'[s] IN
       /\ SenderNotVerified(r) =>
            /\ r.pc \in {"finalComment", "done"}
            /\ Len(r.log) = IF r.pc = "done" THEN 3 ELSE 2
            /\ r.log[1].op = "verifyWebhook" /\ r.log[2].op = "checkIsMaintainer"
            /\ r.log[2].who = r.in.sender /\ r.log[2].repo = r.in.repo
            /\ r.pc = "finalComment" =>
                 r.pend = [num |-> r.in.number, kind |-> "NotMaintainer", err |-> ""]
            /\ r.pc = "done" =>
                 /\ IsComment(r.log[3], {"NotMaintainer"})
                 /\ r.log[3].num = r.in.number /\ r.log[3].repo = r.in.repo
            /\ ledger' = ledger /\ fundings' = fundings /\ payouts' = payouts
       /\ (r.in.action = "labeled" /\ cfg.requireMaintainerForBountyCreation # "false"
             /\ (r.pc = "createLookup" \/ HasOp(r, "createEscrow.call"))) =>
            \E i \in LogIdx(r) :
              /\ r.log[i].op = "checkIsMaintainer" /\ r.log[i].ok /\ r.log[i].msg = "yes"
              /\ r.log[i].who = r.in.sender /\ r.log[i].repo = r.in.repo
  ]_vars

\* the policy is unset, the permission lookup failed: the rejection comment
\* was posted and the delivery is over
C17_Witness ==
  \E s \in Slots :
    LET r == slot[s] IN
    /\ cfg.requireMaintainerForBountyCreation = "unset"
    /\ r.pc = "done" /\ r.http = 200
    /\ \E i \in LogIdx(r) : r.log[i].op = "checkIsMaintainer" /\ ~r.log[i].ok
    /\ IsComment(r.log[Len(r.log)], {"NotMaintainer"}) /\ r.log[Len(r.log)].ok

\* C18: a labeled delivery whose label has no configured amount posts no
\* comment, calls createEscrow not at all and notifies no provider, whoever
\* the sender is and whatever requireMaintainerForBountyCreation is.
C18_UnconfiguredLabelIgnored ==
  \A s \in Slots :
    LET r == slot[s] IN
    (r.in.action = "labeled" /\ ~labeledFieldsMissing(r.in)
       /\ getBountyAmount(r.in.label) = 0) =>
      /\ r.pc \notin {"finalComment", "createLookup", "createSend", "createConfirm",
                      "createdComment", "notify"}
      /\ \A i \in LogIdx(r) :
           r.log[i].op \notin {"postComment", "createEscrow.call", "sendTransaction", "notify"}

\* a verified maintainer attached a label without a configured amount: the
\* delivery ended after the permission lookup, with nothing posted
C18_Witness ==
  \E s \in Slots :
    LET r == slot[s] IN
    /\ r.in.action = "labeled" /\ getBountyAmount(r.in.label) = 0
    /\ r.pc = "done" /\ r.http = 200 /\ Len(r.log) = 2
    /\ r.log[2].op = "checkIsMaintainer" /\ r.log[2].msg = "yes"

\* the places of the entries of a kind in the log of a delivery
Places(r, op) == {i \in LogIdx(r) : r.log[i].op = op}

\* C19: in a labeled delivery createEscrow is called at most once, and then
\* with the delivery's issue number, the hash of the delivery's repository
\* and the amount configured for the delivery's label, after the maintainer
\* check passed (or with the policy off); the instructional comment is
\* posted only after createEscrow returned a confirmed transaction, and the
\* bounty_created notifications only after that comment was posted.
C19_CreateThenCommentThenNotify ==
  \A s \in Slots :
    LET r == slot[s]
        calls == Places(r, "createEscrow.call")
        returns == {i \in Places(r, "createEscrow.return") : r.log[i].ok}
        posts == {i \in LogIdx(r) : IsComment(r.log[i], {"EscrowCreated"})}
        notes == {i \in Places(r, "notify") : r.log[i].msg = "bounty_created"}
    IN
    r.in.action = "labeled" =>
      /\ Cardinality(calls) <= 1
      /\ ( /\ ~labeledFieldsMissing(r.in) /\ bountyConfig(r.in.label) > 0
           /\ \/ cfg.requireMaintainerForBountyCreation = "false"
              \/ \E j \in LogIdx(r) : r.log[j].op = "checkIsMaintainer" /\ r.log[j].msg = "yes" )
         => Cardinality(calls) = 1
      /\ \A i \in calls :
           /\ r.log[i].num = r.in.number
           /\ r.log[i].msg = getRepositoryHash(r.in.repo)
           /\ r.log[i].amt = bountyConfig(r.in.label) /\ r.log[i].amt > 0
           /\ \/ cfg.requireMaintainerForBountyCreation = "false"
              \/ \E j \in 1..(i - 1) : r.log[j].op = "checkIsMaintainer" /\ r.log[j].msg = "yes"
      /\ (r.pc = "createdComment" \/ posts # {}) =>
           \E c \in calls, k \in returns :
             /\ c < k /\ \A i \in posts : k < i
             /\ r.log[k - 1].op = "confirmTransaction" /\ r.log[k - 1].ok
             /\ r.log[k - 2].op = "sendTransaction" /\ r.log[k - 2].ok
             /\ r.log[k - 2].num = r.in.number /\ r.log[k - 2].amt = r.log[c].amt
      /\ Cardinality(posts) <= 1
      /\ ((r.pc = "notify" /\ r.evt = "bounty_created") \/ notes # {}) =>
           \E p \in posts :
             /\ r.log[p].ok /\ r.log[p].num = r.in.number
             /\ \A n \in notes : p < n /\ r.log[n].amt = r.log[p].amt
      /\ r.pc = "createdComment" => (posts = {} /\ notes = {})

\* the whole creation: the call, the confirmed transaction, the comment and
\* the notification of every provider, in that order
C19_Witness ==
  \E s \in Slots :
    LET r == slot[s] IN
    /\ r.in.action = "labeled" /\ r.pc = "done" /\ r.http = 200
    /\ Cardinality(Places(r, "createEscrow.call")) = 1
    /\ \E k \in Places(r, "createEscrow.return") : r.log[k].ok
    /\ \E p \in LogIdx(r) : IsComment(r.log[p], {"EscrowCreated"}) /\ r.log[p].ok
    /\ Cardinality({n \in Places(r, "notify") : r.log[n].msg = "bounty_created"}) = Len(Providers)

\* C20: when createEscrow fails, handleLabeled posts the error as a comment
\* on the issue, notifies no provider, and the delivery has not funded an
\* escrow for the issue: the bounty is left as it was, so that attaching the
\* label again attempts the creation again.
C20_FailedCreateLeavesNoBounty ==
  \A s \in Slots :
    LET r == slot[s] IN
    (\E i \in LogIdx(r) : r.log[i].op = "createEscrow.return" /\ ~r.log[i].ok) =>
      /\ r.pc \in {"finalComment", "done"}
      /\ r.pc = "finalComment" => r.pend.kind = "CreateFailed" /\ r.pend.num = r.in.number
      /\ r.pc = "done" => IsComment(r.log[Len(r.log)], {"CreateFailed"})
      /\ \A i \in LogIdx(r) : r.log[i].op # "notify"
      /\ \A i \in LogIdx(r) : ~(IsCreateSend(r.log[i]) /\ r.log[i].ok)

\* the existence lookup of createEscrow failed: the error was posted, no
\* escrow exists for the issue
C20_Witness ==
  \E s \in Slots :
    LET r == slot[s] IN
    /\ r.pc = "done" /\ r.in.action = "labeled"
    /\ \E i \in LogIdx(r) : r.log[i].op = "getAccountInfo" /\ ~r.log[i].ok
    /\ ledger[<<r.in.repo, r.in.number>>].status = "absent"
    /\ \E i \in LogIdx(r) : r.log[i].op = "createEscrow.return" /\ ~r.log[i].ok
                              /\ r.log[i].err = "RPC error"
    /\ IsComment(r.log[Len(r.log)], {"CreateFailed"}) /\ r.log[Len(r.log)].ok
    /\ r.log[Len(r.log)].err = "RPC error"

\* the notifications of a kind in the log of a delivery
Notes(r, evt) == {i \in Places(r, "notify") : r.log[i].msg = evt}

\* C21: '/assign' on an issue leads, in this order, to one assignIssue
\* request for the commenter, the confirmation comment, and one assignment
\* notification to every provider; if the request fails a failure comment
\* is posted and no provider is notified.  '/assign' on a pull request leads
\* to the guidance comment only: no assignIssue request, no notification.
C21_AssignCommand ==
  \A s \in Slots :
    LET r == slot[s]
        asks == Places(r, "assignIssue")
        posts == Places(r, "postComment")
        notes == Places(r, "notify")
    IN
    (r.in.action = "created" /\ r.in.hasComment /\ ~commentFieldsMissing(r.in)
       /\ IsAssignCommand(r.in.body)) =>
      /\ r.in.isPR =>
           /\ asks = {} /\ notes = {}
           /\ r.pc \in {"finalComment", "done"}
           /\ r.pc = "finalComment" => (posts = {} /\ r.pend.kind = "AssignOnPR")
           /\ \A i \in posts : r.log[i].msg = "AssignOnPR" /\ r.log[i].num = r.in.number
           /\ Cardinality(posts) <= 1
      /\ ~r.in.isPR =>
           /\ r.pc \in {"assignIssue", "assignedComment", "notify", "finalComment", "done"}
           /\ r.pc = "assignIssue" <=> asks = {}
           /\ Cardinality(asks) <= 1
           /\ \A i \in asks : /\ r.log[i].who = r.in.commenter
                              /\ r.log[i].num = r.in.number /\ r.log[i].repo = r.in.repo
           /\ \A i \in posts :
                /\ r.log[i].msg \in {"Assigned", "AssignFailed"}
                /\ r.log[i].num = r.in.number
                /\ \E a \in asks : a < i
                /\ r.log[i].msg = "Assigned" => \E a \in asks : r.log[a].ok
           /\ (\E a \in asks : ~r.log[a].ok) =>
                /\ notes = {} /\ r.pc \in {"finalComment", "done"}
                /\ r.pc = "finalComment" => r.pend.kind = "AssignFailed"
                /\ \A i \in posts : r.log[i].msg = "AssignFailed"
           /\ (r.pc = "notify" \/ notes # {}) =>
                \E p \in posts :
                  /\ r.log[p].msg = "Assigned" /\ r.log[p].ok
                  /\ \A n \in notes : p < n
           /\ \A n \in notes : r.log[n].msg = "assignment" /\ r.log[n].who = Providers[n - 3]
           /\ (r.pc = "done" /\ \E p \in posts : r.log[p].msg = "Assigned" /\ r.log[p].ok)
                => Cardinality(notes) = Len(Providers)

\* '/assign' on an issue: the request, the confirmation and the
\* notification of every provider, one of which failed
C21_Witness ==
  \E s \in Slots :
    LET r == slot[s] IN
    /\ r.pc = "done" /\ IsAssignCommand(r.in.body) /\ ~r.in.isPR
    /\ Len(r.log) = 3 + Len(Providers)
    /\ r.log[2].op = "assignIssue" /\ r.log[2].ok
    /\ IsComment(r.log[3], {"Assigned"}) /\ r.log[3].ok
    /\ \A k \in 1..Len(Providers) : r.log[3 + k].op = "notify"

\* the guidance a /claim comment is answered with before any lookup, "" if
\* it is well-formed
ClaimGuidance(in) ==
  IF ~in.isPR THEN "ClaimOnIssue"
  ELSE IF walletToken(in.body) = "" THEN "ClaimUsage"
  ELSE IF ~IsValidAddress(walletToken(in.body)) THEN "InvalidWallet"
  ELSE ""

\* C22: a /claim comment on a plain issue, or without an address token, or
\* whose address token is not a valid address, is answered with exactly one
\* guidance comment; no pull-request, linked-issue, assignment or claimed
\* lookup is made and nothing is asked of the ledger.
C22_MalformedClaimOnlyGuidance ==
  \A s \in Slots :
    LET r == slot[s] IN
    (r.in.action = "created" /\ r.in.hasComment /\ ~commentFieldsMissing(r.in)
       /\ ~IsAssignCommand(r.in.body) /\ StartsWithClaim(r.in.body)
       /\ ClaimGuidance(r.in) # "") =>
      /\ r.pc \in {"finalComment", "done"}
      /\ r.valid = "none" /\ r.wallet = ""
      /\ r.pc = "finalComment" =>
           /\ Len(r.log) = 1
           /\ r.pend = [num |-> r.in.number, kind |-> ClaimGuidance(r.in), err |-> ""]
      /\ r.pc = "done" =>
           /\ Len(r.log) = 2
           /\ IsComment(r.log[2], {ClaimGuidance(r.in)})
           /\ r.log[2].num = r.in.number /\ r.log[2].repo = r.in.repo
      /\ r.log[1].op = "verifyWebhook"

\* '/claim bad' on a pull request: the invalid-address guidance was posted
\* and the delivery is over
C22_Witness ==
  \E s \in Slots :
    LET r == slot[s] IN
    /\ r.pc = "done" /\ r.http = 200 /\ r.in.isPR
    /\ r.in.body = <<"/claim", "bad">>
    /\ Len(r.log) = 2 /\ IsComment(r.log[2], {"InvalidWallet"}) /\ r.log[2].ok

IsPost(e) == e.op = "postComment"

\* the comments a delivery has asked the tracker to post, in order
PostedSoFar(r) == SelectSeq(r.log, IsPost)

\* C23: after validateClaim returned isValid=false the handler posts the
\* messages of validation.errors on the pull request, one comment for each
\* in list order, and returns: releaseEscrow is not called, nothing is sent
\* to the ledger, no success comment is posted and no provider is notified.
C23_InvalidClaimPostsErrorsOnly ==
  \A s \in Slots :
    LET r == slot[s]
        posts == PostedSoFar(r)
    IN
    r.valid = "false" =>
      /\ r.pc \in {"errorComment", "done"}
      /\ Len(posts) <= Len(r.errors)
      /\ \A i \in 1..Len(posts) :
           /\ posts[i].msg = r.errors[i].kind /\ posts[i].err = r.errors[i].err
           /\ posts[i].num = r.in.number /\ posts[i].repo = r.in.repo
           /\ i < Len(posts) => posts[i].ok
      /\ r.pc = "errorComment" => Len(posts) = r.ni - 1 /\ r.ni <= Len(r.errors)
      /\ (r.pc = "done" /\ r.thrown = "") =>
           Len(posts) = Len(r.errors) /\ posts[Len(posts)].ok
      /\ (r.pc = "done" /\ r.thrown # "") => ~posts[Len(posts)].ok
      /\ \A i \in LogIdx(r) :
           r.log[i].op \notin {"releaseEscrow.call", "getAccountInfo", "sendTransaction",
                               "confirmTransaction", "notify"}

\* a claim refused by check 2: its one error was posted on the pull request
\* and the delivery is over
C23_Witness ==
  \E s \in Slots :
    LET r == slot[s] IN
    /\ r.valid = "false" /\ r.pc = "done" /\ r.http = 200
    /\ Len(r.errors) = 1 /\ r.errors[1].kind = "NotAuthor"
    /\ Len(PostedSoFar(r)) = 1 /\ PostedSoFar(r)[1].msg = "NotAuthor"
    /\ PostedSoFar(r)[1].ok

\* C24: in a delivery whose claim validated, the success comment on the
\* pull request is posted only after releaseEscrow returned a confirmed
\* transaction, the 'Bounty claimed' comment on the linked issue only after
\* that success comment, and the bounty_claimed notifications only after
\* that second comment: one for each provider, in configuration order.
C24_ReleaseThenCommentsThenNotify ==
  \A s \in Slots :
    LET r == slot[s]
        returns == {i \in Places(r, "releaseEscrow.return") : r.log[i].ok}
        released == {i \in LogIdx(r) : IsComment(r.log[i], {"Released"})}
        claims == {i \in LogIdx(r) : IsComment(r.log[i], {"Claimed"})}
        notes == Notes(r, "bounty_claimed")
    IN
    /\ (r.pc \in {"releasedComment", "claimedComment"} \/ released # {} \/ claims # {}
          \/ notes # {} \/ (r.pc = "notify" /\ r.evt = "bounty_claimed")) =>
         /\ r.valid = "true"
         /\ Cardinality(returns) = 1
         /\ \A k \in returns :
              /\ r.log[k].num = r.linked.number /\ r.log[k].who = r.wallet
              /\ r.log[k - 1].op = "confirmTransaction" /\ r.log[k - 1].ok
              /\ IsReleaseSend(r.log[k - 2]) /\ r.log[k - 2].ok
              /\ \A i \in released \cup claims \cup notes : k < i
    /\ r.pc = "releasedComment" => (released = {} /\ claims = {} /\ notes = {})
    /\ Cardinality(released) <= 1 /\ Cardinality(claims) <= 1
    /\ \A i \in released : r.log[i].num = r.in.number /\ r.log[i].repo = r.in.repo
    /\ (r.pc = "claimedComment" \/ claims # {}) =>
         /\ \E p \in released : r.log[p].ok /\ \A c \in claims : p < c
         /\ \A c \in claims : r.log[c].num = r.linked.number /\ r.log[c].repo = r.in.repo
    /\ r.pc = "claimedComment" => (claims = {} /\ notes = {})
    /\ ((r.pc = "notify" /\ r.evt = "bounty_claimed") \/ notes # {}) =>
         /\ \E c \in claims : r.log[c].ok /\ \A n \in notes : c < n
         /\ \A n \in notes :
              /\ r.log[n].num = r.linked.number
              /\ \E k \in 1..Len(Providers) :
                   /\ r.log[n].who = Providers[k]
                   /\ Cardinality({m \in notes : m < n}) = k - 1
         /\ r.pc = "notify" => r.ni = Cardinality(notes) + 1
         /\ r.pc = "done" => Cardinality(notes) = Len(Providers)

\* a claim released: both comments posted and every provider notified
C24_Witness ==
  \E s \in Slots :
    LET r == slot[s] IN
    /\ r.pc = "done" /\ r.http = 200 /\ r.valid = "true"
    /\ \E k \in Places(r, "releaseEscrow.return") : r.log[k].ok
    /\ \E p \in LogIdx(r) : IsComment(r.log[p], {"Released"}) /\ r.log[p].ok
    /\ \E c \in LogIdx(r) : IsComment(r.log[c], {"Claimed"}) /\ r.log[c].ok
    /\ Cardinality(Notes(r, "bounty_claimed")) = Len(Providers)

\* C25: notifyAll calls the providers one after the other in configuration
\* order, each once, whether or not an earlier one failed; the failure of a
\* provider does not make the handler throw and no comment follows it.
C25_NotificationsIsolated ==
  \A s \in Slots :
    LET r == slot[s]
        notes == Places(r, "notify")
        n == Cardinality(notes)
    IN
    (r.pc = "notify" \/ notes # {}) =>
      /\ n <= Len(Providers)
      /\ notes = (Len(r.log) - n + 1)..Len(r.log)
      /\ \A k \in 1..n :
           /\ r.log[Len(r.log) - n + k].who = Providers[k]
           /\ r.log[Len(r.log) - n + k].msg = r.evt
      /\ r.pc \in {"notify", "done"}
      /\ r.pc = "notify" => (r.ni = n + 1 /\ n < Len(Providers))
      /\ r.pc = "done" => (n = Len(Providers) /\ r.thrown = "" /\ r.http = 200)
      /\ \A i \in Places(r, "postComment") :
           r.log[i].ok /\ r.log[i].msg \in {"EscrowCreated", "Assigned", "Released", "Claimed"}

\* the first provider failed, the second was notified, the handler returned
C25_Witness ==
  \E s \in Slots :
    LET r == slot[s] IN
    /\ r.pc = "done" /\ r.http = 200 /\ Len(r.log) > Len(Providers)
    /\ r.log[Len(r.log) - 1].op = "notify" /\ ~r.log[Len(r.log) - 1].ok
    /\ r.log[Len(r.log) - 1].who = Providers[1]
    /\ r.log[Len(r.log)].op = "notify" /\ r.log[Len(r.log)].ok
    /\ r.log[Len(r.log)].who = Providers[2]

\* C26: a delivery with a valid signature whose action is neither 'labeled'
\* nor 'created', or is 'created' without a comment, makes handleWebhook
\* return normally without any tracker call, ledger call or notification.
C26_OtherActionsIgnored ==
  \A s \in Slots :
    LET r == slot[s] IN
    (r.sig = SigValid /\ r.pc # "idle" /\ r.in.action # "labeled"
       /\ ~(r.in.action = "created" /\ r.in.hasComment)) =>
      /\ r.pc = "done" /\ r.thrown = "" /\ r.http = 200
      /\ Len(r.log) = 1 /\ r.log[1].op = "verifyWebhook" /\ r.log[1].ok

\* an 'opened' event with a valid signature was answered 200
C26_Witness ==
  \E s \in Slots :
    LET r == slot[s] IN
    /\ r.sig = SigValid /\ r.in.action = "opened"
    /\ r.pc = "done" /\ r.http = 200 /\ Len(r.log) = 1

\* C27: a labeled delivery without issue number, repository, label name or
\* sender, and a comment delivery without comment body, commenter, issue
\* number or repository, makes the handler throw a 'Missing required fields'
\* error before any tracker call, ledger call or notification.
C27_MissingFieldsRejectedFirst ==
  \A s \in Slots :
    LET r == slot[s]
        in == r.in
        labeledLacks ==
          in.action = "labeled"
            /\ (in.number = 0 \/ in.repo = "" \/ in.label = "" \/ in.sender = "")
        commentLacks ==
          in.action = "created" /\ in.hasComment
            /\ (in.body = <<>> \/ in.commenter = "" \/ in.number = 0 \/ in.repo = "")
    IN
    (r.sig = SigValid /\ (labeledLacks \/ commentLacks)) =>
      /\ r.pc = "done"
      /\ r.thrown = IF labeledLacks THEN "Missing required fields in labeled event"
                    ELSE "Missing required fields in comment event"
      /\ Includes(r.thrown, "Missing required fields") /\ r.http = 400
      /\ Len(r.log) = 1 /\ r.log[1].op = "verifyWebhook"

\* a labeled event without a sender was answered 400
C27_Witness ==
  \E s \in Slots :
    LET r == slot[s] IN
    /\ r.in.action = "labeled" /\ r.in.sender = "" /\ r.in.label # ""
    /\ r.pc = "done" /\ r.http = 400 /\ Len(r.log) = 1

\* C28: createEscrow, releaseEscrow and escrowExists hash the seeds
\* 'escrow', repository hash, issue number as 8 little-endian bytes, in that
\* order, with the provider's program id: whichever two of them serve two
\* requests, the addresses are equal when repository hash and issue number
\* are equal and differ when either differs.
C28_SameAddressIffSameInputs ==
  call.stage = 2 =>
    /\ (call.hash1 = call.hash2 /\ call.num1 = call.num2) <=> call.pda1 = call.pda2
    /\ \A k \in 1..6 : call.pda1.bytes[k] = EscrowTag[k]
    /\ \A k \in 1..32 : call.pda1.bytes[6 + k] = call.hash1[k]
    /\ Len(call.pda1.bytes) = 6 + 32 + 8
    /\ call.pda1.bytes[39] + 256 * call.pda1.bytes[40] + 65536 * call.pda1.bytes[41] = call.num1
    /\ \A k \in 42..46 : call.pda1.bytes[k] = 0
    /\ call.pda1.programId = call.programId /\ call.pda2.programId = call.programId

\* createEscrow and releaseEscrow served issue numbers 1 and 257 of one
\* repository: the addresses differ
C28_Witness ==
  /\ call.stage = 2 /\ call.by1 = "createEscrow" /\ call.by2 = "releaseEscrow"
  /\ call.hash1 = call.hash2 /\ call.num1 = 1 /\ call.num2 = 257
  /\ call.pda1 # call.pda2

\* the number that 8 little-endian bytes at an offset of a byte string carry;
\* the numbers of the model fit in the low 4 bytes
U64At(data, off) ==
  data[off + 1] + 256 * (data[off + 2] + 256 * (data[off + 3] + 256 * data[off + 4]))

HighBytesZero(data, off) == \A k \in 5..8 : data[off + k] = 0

\* the instruction data has the layout of its kind
WellEncoded(kind, data) ==
  /\ data[1] = (IF kind = "CreateEscrow" THEN 0 ELSE 1)
  /\ \A k \in 1..32 : data[1 + k] = call.hash[k]
  /\ U64At(data, 33) = call.num /\ HighBytesZero(data, 33)
  /\ \A k \in 1..Len(data) : data[k] \in 0..255
  /\ IF kind = "CreateEscrow"
     THEN /\ Len(data) = 49
          /\ U64At(data, 41) = call.amount /\ HighBytesZero(data, 41)
     ELSE Len(data) = 41

\* C29: the data of a CreateEscrow instruction is the byte 0, the 32 bytes
\* of repo_hash, issue_number and amount as 8 little-endian bytes each (49
\* bytes); that of a ReleaseEscrow instruction is the byte 1, the 32 bytes
\* of repo_hash and issue_number as 8 little-endian bytes (41 bytes);
\* encoding the same record again gives the same bytes.
C29_InstructionLayout ==
  /\ call.stage >= 1 => WellEncoded(call.by1, call.data1)
  /\ call.stage = 2 =>
       /\ WellEncoded(call.by2, call.data2)
       /\ call.by1 = call.by2 => call.data1 = call.data2
       /\ call.by1 # call.by2 => call.data1 # call.data2

\* issue 257 with 2 SOL encoded as CreateEscrow twice: 49 equal bytes, the
\* issue number in bytes 34 and 35
C29_Witness ==
  /\ call.stage = 2 /\ call.by1 = "CreateEscrow" /\ call.by2 = "CreateEscrow"
  /\ call.num = 257 /\ call.amount = 2000000000
  /\ Len(call.data1) = 49 /\ call.data1 = call.data2
  /\ call.data1[34] = 1 /\ call.data1[35] = 1 /\ call.data1[36] = 0

\* the delivery in a slot has been told by getAccountInfo that no escrow
\* exists for its issue, in createEscrow
SawNoEscrow(r) ==
  /\ r.in.action = "labeled" /\ HasOp(r, "createEscrow.call")
  /\ \E i \in LogIdx(r) : r.log[i].op = "getAccountInfo" /\ r.log[i].ok /\ r.log[i].msg = "absent"

\* C30: nothing in the process keeps two labeled deliveries for the same
\* issue from both passing the existence test of createEscrow and both
\* submitting a CreateEscrow instruction; an escrow is funded at most once
\* all the same, because the ledger accepts only one of the submissions.
C30_OnlyLedgerStopsSecondCreate ==
  /\ \A p \in Pairs : fundings[p] <= 1
  /\ \A s \in Slots, t \in Slots :
       LET r == slot[s]
           q == slot[t] IN
       (s # t /\ SawNoEscrow(r) /\ SawNoEscrow(q)
          /\ r.in.repo = q.in.repo /\ r.in.number = q.in.number) =>
         ~ /\ \E i \in LogIdx(r) : IsCreateSend(r.log[i]) /\ r.log[i].ok
           /\ \E j \in LogIdx(q) : IsCreateSend(q.log[j]) /\ q.log[j].ok

\* two deliveries for the same issue have both been told that no escrow
\* exists, both have submitted their CreateEscrow instruction, and neither
\* submission has reached the ledger yet
C30_Witness ==
  \E s \in Slots, t \in Slots :
    LET r == slot[s]
        q == slot[t] IN
    /\ s # t /\ SawNoEscrow(r) /\ SawNoEscrow(q)
    /\ r.in.repo = q.in.repo /\ r.in.number = q.in.number
    /\ r.pc = "createSend" /\ q.pc = "createSend"
    /\ ledger[<<r.in.repo, r.in.number>>].status = "absent"

\* the claim of the delivery has passed validateClaim for the issue n
PassedValidation(r, n) ==
  /\ r.valid = "true" /\ r.linked.number = n
  /\ \E i \in Places(r, "validateClaim.return") : r.log[i].ok

\* C31: nothing in the process keeps two /claim deliveries that resolve to
\* the same issue from both passing validateClaim and both submitting a
\* ReleaseEscrow instruction: the comments that mark the bounty as claimed
\* are posted only after releaseEscrow has returned in the same delivery, so
\* while neither release has returned no marker exists.  The escrow is paid
\* out once all the same, because the ledger accepts one submission only.
C31_MarkerOnlyAfterRelease ==
  /\ \A s \in Slots :
       LET r == slot[s] IN
       \A i \in LogIdx(r) :
         (IsComment(r.log[i], {"Released", "Claimed"}) /\ r.in.action = "created") =>
           \E j \in Places(r, "releaseEscrow.return") : j < i /\ r.log[j].ok
  /\ \A p \in Pairs : claimMarker[p] => \E q \in Pairs : payouts[q] >= 1
  /\ \A p \in Pairs : payouts[p] <= fundings[p]
  /\ \A s \in Slots, t \in Slots :
       LET r == slot[s]
           q == slot[t] IN
       (s # t /\ r.in.repo = q.in.repo /\ r.linked.number # 0
          /\ PassedValidation(r, r.linked.number)
          /\ PassedValidation(q, r.linked.number)) =>
         ~ /\ \E i \in LogIdx(r) : IsReleaseSend(r.log[i]) /\ r.log[i].ok
           /\ \E j \in LogIdx(q) : IsReleaseSend(q.log[j]) /\ q.log[j].ok

\* two claims of the funded bounty have both passed validateClaim, no marker
\* comment exists, and both have submitted their ReleaseEscrow instruction,
\* neither of which has reached the ledger yet
C31_Witness ==
  \E s \in Slots, t \in Slots :
    LET r == slot[s]
        q == slot[t] IN
    /\ s # t /\ r.in.repo = ClaimedPair[1] /\ q.in.repo = ClaimedPair[1]
    /\ PassedValidation(r, ClaimedPair[2]) /\ PassedValidation(q, ClaimedPair[2])
    /\ r.pc = "releaseSend" /\ q.pc = "releaseSend"
    /\ ~claimMarker[ClaimedPair]
    /\ ledger[ClaimedPair].status = "funded" /\ payouts[ClaimedPair] = 0

\* the calls of the payment provider and the transactions submitted
LedgerCalls(r) == Places(r, "createEscrow.call") \cup Places(r, "releaseEscrow.call")
Submissions(r) == Places(r, "sendTransaction")
LedgerFailures(r) ==
  {i \in Places(r, "createEscrow.return") \cup Places(r, "releaseEscrow.return") : ~r.log[i].ok}

\* C32: within one delivery createEscrow or releaseEscrow is called at most
\* once and at most one transaction is submitted to the ledger; once the
\* call has failed, the delivery makes no further call of the payment
\* provider and no further request to the ledger.
C32_NoRetry ==
  \A s \in Slots :
    LET r == slot[s] IN
    /\ Cardinality(LedgerCalls(r)) <= 1
    /\ Cardinality(Submissions(r)) <= 1
    /\ \A c \in LedgerCalls(r), t \in Submissions(r) : c < t
    /\ \A f \in LedgerFailures(r), i \in LogIdx(r) :
         i > f => r.log[i].op \notin
                    {"createEscrow.call", "releaseEscrow.call", "getAccountInfo",
                     "sendTransaction", "confirmTransaction"}
    /\ LedgerFailures(r) # {} =>
         r.pc \notin {"createLookup", "createSend", "createConfirm",
                      "releaseLookup", "releaseSend", "releaseConfirm"}

\* a delivery whose submitted transaction failed has been handled to its
\* end: the failure was reported and nothing was submitted again
C32_Witness ==
  \E s \in Slots :
    LET r == slot[s] IN
    /\ r.pc = "done"
    /\ \E t \in Submissions(r) : ~r.log[t].ok
    /\ LedgerFailures(r) # {}
    /\ \E i \in LogIdx(r) : IsComment(r.log[i], {"ReleaseFailed", "CreateFailed"}) /\ r.log[i].ok

\* C33: a 'Failed to release bounty' comment is posted only in a delivery
\* whose releaseEscrow call did not return successfully, and a 'Failed to
\* create bounty escrow' comment only in one whose createEscrow call did not.
C33_FailureCommentOnlyAfterLedgerFailure ==
  \A s \in Slots :
    LET r == slot[s] IN
    \A i \in LogIdx(r) :
      /\ IsComment(r.log[i], {"ReleaseFailed"}) =>
           ~ \E j \in Places(r, "releaseEscrow.return") : r.log[j].ok
      /\ IsComment(r.log[i], {"CreateFailed"}) =>
           ~ \E j \in Places(r, "createEscrow.return") : r.log[j].ok

\* the release was confirmed and paid, the success comment failed to post,
\* and the delivery posted 'Failed to release bounty'
C33_Witness ==
  \E s \in Slots :
    LET r == slot[s] IN
    \E j \in Places(r, "releaseEscrow.return"), k \in LogIdx(r), i \in LogIdx(r) :
      /\ r.log[j].ok /\ j < k /\ k < i
      /\ IsComment(r.log[k], {"Released", "Claimed"}) /\ ~r.log[k].ok
      /\ IsComment(r.log[i], {"ReleaseFailed"}) /\ r.log[i].ok
      /\ r.log[i].err = "Failed to post comment"
      /\ payouts[<<r.in.repo, r.linked.number>>] >= 1

\* the lamports the ledger paid out in this delivery
PaidOut(r) == {r.log[i].amt : i \in {k \in LogIdx(r) : IsReleaseSend(r.log[k]) /\ r.log[k].ok}}

\* C34: the amount in the success comment of a claim and in its
\* bounty_claimed notifications is the amount the escrow was created with,
\* which is the amount the ledger pays out on release.
C34_ReportedAmountIsEscrowAmount ==
  \A s \in Slots :
    LET r == slot[s] IN
    \A i \in LogIdx(r) :
      (IsComment(r.log[i], {"Released"}) \/ i \in Notes(r, "bounty_claimed")) =>
        \A paid \in PaidOut(r) : r.log[i].amt = paid

\* an escrow created with 1 SOL has been paid out, and the success comment
\* and the notification of the claim report 2 SOL
C34_Witness ==
  \E s \in Slots :
    LET r == slot[s] IN
    /\ PaidOut(r) = {bountyConfig("bounty-1-sol")}
    /\ \E i \in LogIdx(r) : /\ IsComment(r.log[i], {"Released"}) /\ r.log[i].ok
                            /\ r.log[i].amt = bountyConfig("bounty-2-sol")
    /\ \E n \in Notes(r, "bounty_claimed") : r.log[n].amt = bountyConfig("bounty-2-sol")

ClosedStageQueries == ValidationQueries \ {"isClaimed.listComments"}

\* C36: validateClaim returns isValid=true, and a release is attempted, only
\* if no tracker query of checks 1 to 4 failed in the delivery; the query of
\* check 5 is the only one that may fail in a claim that is accepted.
C36_StagesOneToFourFailClosed ==
  \A s \in Slots :
    LET r == slot[s] IN
    \A v \in Places(r, "validateClaim.return") :
      r.log[v].ok =>
        \A i \in LogIdx(r) :
          (i < v /\ r.log[i].op \in ClosedStageQueries) => r.log[i].ok

\* a lookup of findLinkedIssueWithBounty has failed, validateClaim has
\* returned isValid=true all the same and releaseEscrow has been called
C36_Witness ==
  \E s \in Slots :
    LET r == slot[s] IN
    /\ r.pc = "releaseLookup" /\ r.valid = "true"
    /\ HasOp(r, "releaseEscrow.call")
    /\ \E i \in LogIdx(r) : r.log[i].op \in FindLinkedQueries /\ ~r.log[i].ok
    /\ ~ \E i \in LogIdx(r) :
           r.log[i].op \in {"getPullRequest", "wasAssigned.getIssue", "wasAssigned.timeline"}
             /\ ~r.log[i].ok

\* the trimmed body is a /claim command: the word "/claim", followed by its
\* token or, malformed, by nothing
IsClaimCommand(body) == body # <<>> /\ body[1] = "/claim"

\* C37: a comment whose trimmed body is neither "/assign" nor a /claim
\* command has no effect: nothing is posted or awaited to be posted, no
\* assignment is requested, validateClaim is not run, the ledger is not
\* called and no provider is notified.
C37_OtherCommentsNoEffect ==
  \A s \in Slots :
    LET r == slot[s] IN
    (r.in.action = "created" /\ r.in.hasComment
       /\ ~IsAssignCommand(r.in.body) /\ ~IsClaimCommand(r.in.body)) =>
      /\ r.pc = "done"
      /\ \A i \in LogIdx(r) : r.log[i].op = "verifyWebhook"

\* a comment that begins with the word "/claimed" has been answered with
\* the 'Invalid wallet address' comment
C37_Witness ==
  \E s \in Slots :
    LET r == slot[s] IN
    /\ r.in.action = "created" /\ r.in.hasComment /\ r.in.isPR
    /\ r.in.body # <<>> /\ r.in.body[1] = "/claimed"
    /\ \E i \in LogIdx(r) : IsComment(r.log[i], {"InvalidWallet"}) /\ r.log[i].ok

\* the status codes of the webhook route
RouteStatuses == {200, 400, 401, 500}

\* C38: if every external call eventually returns or fails, the handling of
\* every delivery ends: the route responds, and it responds once, after
\* which nothing more is done for the delivery.
C38_EveryDeliveryAnswered ==
  /\ [][\A s \in Slots :
          /\ slot[s].http \in RouteStatuses <=> slot[s].pc = "done"
          /\ slot[s].pc = "done" => (slot'[s] = slot[s] \/ slot'[s] = IdleSlot)]_vars
  /\ \A s \in Slots :
       (slot[s].pc # "idle") ~> (slot[s].pc = "done" /\ slot[s].http \in RouteStatuses)

\* a claim has gone through every awaited call of its handler, released the
\* bounty, notified the last provider, and the route has answered 200
C38_Witness ==
  \E s \in Slots :
    LET r == slot[s] IN
    /\ r.pc = "done" /\ r.http = 200
    /\ \E i \in LogIdx(r) : IsReleaseSend(r.log[i]) /\ r.log[i].ok
    /\ Cardinality(Notes(r, "bounty_claimed")) = Len(Providers)

\* the unsigned integer a sequence of bytes stands for, least significant
\* byte first
RECURSIVE FromLeBytes(_)
FromLeBytes(bytes) ==
  IF bytes = <<>> THEN 0 ELSE bytes[1] + 256 * FromLeBytes(Tail(bytes))

\* floor(n / 256^i) mod 256, for n below 2^31 (256^4 exceeds every such n)
ByteOf(n, i) == IF i < 4 THEN (n \div (256 ^ i)) % 256 ELSE 0

LeBytesOf(n, bytes) ==
  /\ Len(bytes) = 8
  /\ \A i \in 0..7 : bytes[i + 1] \in 0..255 /\ bytes[i + 1] = ByteOf(n, i)
  /\ FromLeBytes(bytes) = n

\* C39: numberToLeBytes(n) is 8 bytes, byte i being floor(n / 256^i) mod 256;
\* read back least significant byte first they give n, and two different
\* numbers give two different byte sequences.
C39_LittleEndianU64 ==
  /\ call.bytes1 # <<>> => LeBytesOf(call.num1, call.bytes1)
  /\ call.bytes2 # <<>> => LeBytesOf(call.num2, call.bytes2)
  /\ (call.bytes1 # <<>> /\ call.bytes2 # <<>>) =>
       (call.num1 = call.num2 <=> call.bytes1 = call.bytes2)

\* 256 and 65536 have been converted: one byte is set in each, at offsets 1
\* and 2
C39_Witness ==
  /\ call.num1 = 256 /\ call.bytes1 = <<0, 1, 0, 0, 0, 0, 0, 0>>
  /\ call.num2 = 65536 /\ call.bytes2 = <<0, 0, 1, 0, 0, 0, 0, 0>>

====
